---- MODULE Spec2Model ----
(***************************************************************************)
(* Model of src/bitbucket-backup.py: one run of main(), i.e. one           *)
(* BitbucketMigrationSystem object driven through                          *)
(* backup_all_repositories().  The remote API, git and the file system are *)
(* the environment: every outcome they can return is a choice.             *)
(***************************************************************************)
EXTENDS Integers, Sequences, FiniteSets, TLC

\* ---------------------------------------------------------------- bounds
MaxRepos == 2          \* most repositories one discovery returns
MaxExisting == 1       \* most repositories the destination listing returns
MaxCandidates == 3     \* most repositories of one workspace when filtering
MaxPatterns == 1       \* most patterns in one REPO_*_PATTERNS list
MaxCap == 2            \* largest AUTO_DISCOVERY_MAX_REPOS when filtering
MaxArchives == 3       \* most archives a backup directory starts with
MaxDirs == 2           \* most sub-directories a backup directory starts with
MaxKeep == 1           \* largest MAX_BACKUPS when pruning
MaxItems == 3          \* most items one paginated fetch collects
MaxRestored == 1       \* most entries of one kind in a metadata snapshot
MaxFailures == 2
MaxRuns == 2       \* most sub-resource fetches that fail in one snapshot

\* ------------------------------------------------------------ input data
None == "None"
\* A destination repository record that was not obtained (Python None).
NoRepo == [name |-> None, origin |-> None]
\* repo_stats before the first iteration.
NoStats == [name |-> None, success |-> FALSE]
\* discovered_workspace_mapping before it is assigned (hasattr is false).
NoMapping == [set |-> FALSE, map |-> {}]
Bool(b) == IF b THEN "True" ELSE "False"
RepoNamePool == <<"app", "lib", "web", "doc">>
RepoNames == {RepoNamePool[k] : k \in 1..MaxRepos}
\* The workspaces a discovery can return, in the order it returns them.
WorkspacePool == <<"ws1", "ws2">>
WorkspaceSlugs == {WorkspacePool[k] : k \in 1..Len(WorkspacePool)}

\* AUTO_DISCOVERY_MAX_REPOS when the environment does not set it.
DefaultMaxRepos == 1000

\* REPO_NAME_PREFIX as configured for the run (used when PRESERVE_REPO_NAMES is off).
RepoNamePrefix == "bk-"

\* A repository record as one page of the listing returns it; https says
\* whether links.clone holds an entry named 'https'.
RepoRecords == [name : RepoNames, https : BOOLEAN]

Range(s) == {s[k] : k \in 1..Len(s)}

\* Tuples over S of length at most n.
SeqsUpTo(S, n) == UNION {[1..k -> S] : k \in 0..n}

\* The attributes __init__ assigns on the object (the ones the run reads).
\* bitbucket_workspace, bitbucket_username and bitbucket_api_token, read by
\* the metadata fetches and by clone_repository, are not among them.
InitAttrs ==
    {"migration_mode", "source_email", "source_api_token", "source_username",
     "multi_workspace_mode", "source_workspaces", "dest_workspaces",
     "workspace_mapping", "source_workspace", "dest_workspace", "dest_email",
     "dest_api_token", "dest_username", "preserve_repo_names",
     "repo_name_prefix", "workspace_name_prefix", "skip_existing_repos",
     "skip_existing_workspaces", "create_missing_workspaces", "source_auth",
     "dest_auth", "auth", "backup_base_dir", "max_backups", "email_enabled",
     "base_url", "clone_timeout", "push_timeout", "auto_discover_all",
     "workspace_include_patterns", "workspace_exclude_patterns",
     "repo_include_patterns", "repo_exclude_patterns",
     "auto_discovery_max_repos", "user_mapping", "headers", "timestamp",
     "repos_dir", "metadata_dir", "logs_dir", "backup_stats"}

\* The three attributes the legacy code paths read and __init__ never assigns.
\* MAX_BACKUPS when the environment does not set it.
DefaultMaxBackups == 5

\* The modification times of the archives and of the sub-directories a
\* backup directory starts with.
MtimePool == {1, 2, 3}
DirMtimePool == {1, 2}

\* A backup directory repos_dir/<name>: whether it exists, and the
\* modification times of its *.tar.gz files and of its sub-directories, each
\* in the order os.listdir names them.
NoDir == [exists |-> FALSE, files |-> <<>>, dirs |-> <<>>]

\* cleanup_old_backups has not run, or returned before it listed anything.
NoReport == [files |-> <<>>, removed |-> {}, errors |-> {},
             dirs |-> <<>>, removed_dirs |-> {}, dir_errors |-> {}]

\* RESTORE_ISSUES, RESTORE_PRS, RESTORE_WIKI, RESTORE_PERMISSIONS,
\* RESTORE_BRANCH_RESTRICTIONS, RESTORE_WEBHOOKS and RESTORE_DEPLOY_KEYS when
\* the environment does not set them.
DefaultRestoreSwitches ==
    [issues |-> TRUE, prs |-> FALSE, wiki |-> TRUE, permissions |-> FALSE,
     restrictions |-> FALSE, webhooks |-> FALSE, deploy_keys |-> FALSE]

\* USER_MAPPING when the environment does not set it: '{}'.
NoUserMapping == {}

\* A snapshot with nothing in it.
NoMetadata ==
    [issues |-> <<>>, pull_requests |-> <<>>, wiki |-> <<>>,
     permissions |-> <<>>, branch_restrictions |-> <<>>, webhooks |-> <<>>,
     deploy_keys |-> <<>>]

LegacyAttrs == {"bitbucket_workspace", "bitbucket_username", "bitbucket_api_token"}

VARIABLES
    \* configuration read from the environment by __init__
    migration_mode, auto_discover_all, multi_workspace_mode,
    skip_existing_repos, preserve_repo_names,
    create_missing_workspaces, skip_existing_workspaces,
    source_creds,        \* SOURCE_ATLASSIAN_EMAIL and SOURCE_BITBUCKET_API_TOKEN both set
    source_workspace,    \* SOURCE_BITBUCKET_WORKSPACE set
    dest_config,         \* DEST_ email, token and workspace all set
    repo_include_patterns, repo_exclude_patterns, auto_discovery_max_repos,
    workspace_include_patterns, workspace_exclude_patterns,
    attrs,               \* the attributes the object has
    max_backups,
    restore_metadata,    \* the RESTORE_* switches, by kind
    user_mapping,        \* USER_MAPPING, as pairs <<source name, destination name>>
    \* the backup volume: repos_dir/<repository name>, and what the last
    \* cleanup_old_backups found, removed and failed to remove
    repos_dir, cleanup_report,
    \* fetch_paginated_data: the URL of the next request, the items so far
    next_url, all_data,
    \* restore_repository_metadata: the snapshot loaded, and the requests
    \* sent to the destination, in order
    metadata, written,
    \* auto_discover_complete_structure
    discovered_workspaces, filtered_workspaces,
    scanned,             \* what each repository listing answered, in order
    workspace_repositories, \* the map get_all_workspaces_repositories returned
    \* the run
    pc, auth, original_auth,
    complete_structure, ws_idx, discovered_workspace_mapping,
    repositories, existing_dest_repos,
    idx, metadata_path, local_repo_path, mirror_repo, repo_stats,
    success_count, backup_stats,
    calls,               \* what the run did to the outside world, in order
    sleeps, result, exit_code

cfgVars == <<migration_mode, auto_discover_all, multi_workspace_mode,
             skip_existing_repos, preserve_repo_names,
             create_missing_workspaces, skip_existing_workspaces,
             source_creds, source_workspace, dest_config,
             repo_include_patterns, repo_exclude_patterns,
             auto_discovery_max_repos, workspace_include_patterns,
             workspace_exclude_patterns, attrs, max_backups,
             restore_metadata, user_mapping>>

fsVars == <<repos_dir, cleanup_report>>

pageVars == <<next_url, all_data>>

restoreVars == <<metadata, written>>

scanVars == <<discovered_workspaces, filtered_workspaces, scanned,
              workspace_repositories>>

\* hasattr(self, a)
HasAttr(a) == a \in attrs

discVars == <<complete_structure, ws_idx, discovered_workspace_mapping,
              repositories, existing_dest_repos>>

iterVars == <<idx, metadata_path, local_repo_path, mirror_repo, repo_stats>>

vars == <<cfgVars, fsVars, pageVars, restoreVars, scanVars, pc, auth, original_auth, discVars, iterVars,
          success_count, backup_stats, calls, sleeps, result, exit_code>>

\* One entry of the log of outside effects.
Call(op, i, target, outcome) ==
    [op |-> op, i |-> i, target |-> target, outcome |-> outcome]

Init ==
    /\ migration_mode \in BOOLEAN
    /\ auto_discover_all \in BOOLEAN
    \* AUTO_DISCOVER_ALL is tested first, so MULTI_WORKSPACE_MODE adds no
    \* behaviour to an auto-discovery run.
    /\ multi_workspace_mode \in (IF auto_discover_all THEN {FALSE} ELSE BOOLEAN)
    /\ skip_existing_repos \in BOOLEAN
    /\ preserve_repo_names \in BOOLEAN
    /\ create_missing_workspaces \in BOOLEAN
    /\ skip_existing_workspaces \in BOOLEAN
    /\ source_creds \in BOOLEAN
    /\ source_workspace \in BOOLEAN
    /\ dest_config \in BOOLEAN
    /\ repo_include_patterns = <<>>
    /\ repo_exclude_patterns = <<>>
    /\ auto_discovery_max_repos = DefaultMaxRepos
    /\ workspace_include_patterns = <<>>
    /\ workspace_exclude_patterns = <<>>
    /\ attrs = InitAttrs
    /\ max_backups = DefaultMaxBackups
    /\ restore_metadata = DefaultRestoreSwitches
    /\ user_mapping = NoUserMapping
    /\ metadata = NoMetadata
    /\ written = <<>>
    /\ repos_dir = [n \in RepoNames |-> NoDir]
    /\ cleanup_report = NoReport
    /\ next_url = None
    /\ all_data = <<>>
    /\ discovered_workspaces = <<>>
    /\ filtered_workspaces = <<>>
    /\ scanned = <<>>
    /\ workspace_repositories = <<>>
    /\ pc = "main"
    /\ auth = "source"
    /\ original_auth = None
    /\ complete_structure = <<>>
    /\ ws_idx = 0
    /\ discovered_workspace_mapping = NoMapping
    /\ repositories = <<>>
    /\ existing_dest_repos = {}
    /\ idx = 0
    /\ metadata_path = None
    /\ local_repo_path = None
    /\ mirror_repo = NoRepo
    /\ repo_stats = NoStats
    /\ success_count = 0
    /\ backup_stats = [total_repos |-> 0, successful_repos |-> 0,
                       failed_repos |-> 0, repo_details |-> <<>>,
                       errors |-> <<>>]
    /\ calls = <<>>
    /\ sleeps = 0
    /\ result = None
    /\ exit_code = -1

\* ------------------------------------------------------------------ main
\* main(): without the source credentials the process exits 1 at once.
Main ==
    /\ pc = "main"
    /\ IF source_creds
       THEN pc' = "validate" /\ exit_code' = exit_code
       ELSE pc' = "done" /\ exit_code' = 1
    /\ UNCHANGED <<cfgVars, pageVars, restoreVars, fsVars, scanVars, auth, original_auth, discVars, iterVars,
                   success_count, backup_stats, calls, sleeps, result>>

\* A main() that exits 0 whatever run_backup returned.
ExitCodeAlwaysZero(success) == 0

\* sys.exit(0 if success else 1)
ExitCode(success) == IF success = "True" THEN 0 ELSE 1

MainExit ==
    /\ pc = "exit"
    /\ exit_code' = ExitCode(result)
    /\ pc' = "done"
    /\ UNCHANGED <<cfgVars, pageVars, restoreVars, fsVars, scanVars, auth, original_auth, discVars, iterVars,
                   success_count, backup_stats, calls, sleeps, result>>

\* -------------------------------------------------------------- validate
\* A validation that accepts every configuration.
SkipValidation(source_valid, dest_valid) == TRUE

\* validate_migration_config: source_valid / dest_valid are what the two
\* _test_api_connection probes answer.
ValidateMigrationConfig(source_valid, dest_valid) ==
    IF ~migration_mode
    THEN source_creds /\ source_workspace /\ source_valid
    ELSE /\ source_creds /\ source_workspace /\ dest_config
         /\ source_valid /\ dest_valid

Validate ==
    /\ pc = "validate"
    /\ \E source_valid, dest_valid \in BOOLEAN :
         IF ValidateMigrationConfig(source_valid, dest_valid)
         THEN pc' = "discover" /\ result' = result
         ELSE pc' = "exit" /\ result' = "False"
    /\ UNCHANGED <<cfgVars, pageVars, restoreVars, fsVars, scanVars, auth, original_auth, discVars, iterVars,
                   success_count, backup_stats, calls, sleeps, exit_code>>

\* ------------------------------------------------------------- discovery
\* pattern in name (Python substring test on str)
Contains(pattern, name) ==
    \E k \in 0..(Len(name) - Len(pattern)) :
        SubSeq(name, k + 1, k + Len(pattern)) = pattern

AnyMatch(patterns, name) ==
    \E k \in 1..Len(patterns) : Contains(patterns[k], name)

\* A filter in which a matching include pattern overrides the exclusion.
RECURSIVE FilterLoopIncludeWins(_, _, _, _, _, _)
FilterLoopIncludeWins(repos, k, filtered, include, exclude, maxRepos) ==
    IF k > Len(repos) THEN filtered
    ELSE IF include # <<>> /\ ~AnyMatch(include, repos[k].name)
         THEN FilterLoopIncludeWins(repos, k + 1, filtered, include, exclude,
                                    maxRepos)
    ELSE IF include = <<>> /\ exclude # <<>> /\ AnyMatch(exclude, repos[k].name)
         THEN FilterLoopIncludeWins(repos, k + 1, filtered, include, exclude,
                                    maxRepos)
    ELSE IF Len(filtered) >= maxRepos THEN filtered
    ELSE FilterLoopIncludeWins(repos, k + 1, Append(filtered, repos[k]),
                               include, exclude, maxRepos)

\* The for loop of apply_repository_filters.
RECURSIVE FilterLoop(_, _, _, _, _, _)
FilterLoop(repos, k, filtered, include, exclude, maxRepos) ==
    IF k > Len(repos) THEN filtered
    ELSE IF include # <<>> /\ ~AnyMatch(include, repos[k].name)
         THEN FilterLoop(repos, k + 1, filtered, include, exclude, maxRepos)
    ELSE IF exclude # <<>> /\ AnyMatch(exclude, repos[k].name)
         THEN FilterLoop(repos, k + 1, filtered, include, exclude, maxRepos)
    ELSE IF Len(filtered) >= maxRepos THEN filtered
    ELSE FilterLoop(repos, k + 1, Append(filtered, repos[k]),
                    include, exclude, maxRepos)

\* A filter without the early return for an empty configuration.
FiltersWithoutEarlyReturn(repos, include, exclude, maxRepos) ==
    FilterLoop(repos, 1, <<>>, include, exclude, maxRepos)

apply_repository_filters(repos, include, exclude, maxRepos) ==
    IF include = <<>> /\ exclude = <<>> THEN repos
    ELSE FilterLoop(repos, 1, <<>>, include, exclude, maxRepos)

\* WORKSPACE_MAPPING and WORKSPACE_NAME_PREFIX are left unset in the runs
\* modelled, so a destination workspace carries the source workspace's name.
workspace_name_prefix == ""
determine_destination_workspace_name(source_ws) ==
    IF workspace_name_prefix # ""
    THEN workspace_name_prefix \o source_ws
    ELSE source_ws

MappingGet(mapping, slug) ==
    IF \E p \in mapping.map : p[1] = slug
    THEN (CHOOSE p \in mapping.map : p[1] = slug)[2]
    ELSE slug

\* The queue record of one repository.
QueueRecord(repo, slug, dest_ws) ==
    [name |-> repo.name, https |-> repo.https,
     workspace |-> slug, dest_workspace |-> dest_ws]

\* A flattening that counts the cap over all workspaces together.
RECURSIVE FlattenWithGlobalCap(_, _, _)
FlattenWithGlobalCap(structure, k, used) ==
    IF k > Len(structure) THEN <<>>
    ELSE
      LET slug == structure[k].slug
          left == IF auto_discovery_max_repos > used
                  THEN auto_discovery_max_repos - used ELSE 0
          filtered == apply_repository_filters(
                          structure[k].repositories, repo_include_patterns,
                          repo_exclude_patterns, left)
          dest == IF migration_mode /\ discovered_workspace_mapping.set
                  THEN MappingGet(discovered_workspace_mapping, slug)
                  ELSE None
      IN  [j \in 1..Len(filtered) |-> QueueRecord(filtered[j], slug, dest)]
          \o FlattenWithGlobalCap(structure, k + 1, used + Len(filtered))

FlattenGlobally(structure, k) == FlattenWithGlobalCap(structure, k, 0)

RECURSIVE flatten_discovered_structure_to_repositories(_, _)
flatten_discovered_structure_to_repositories(structure, k) ==
    IF k > Len(structure) THEN <<>>
    ELSE
      LET slug == structure[k].slug
          filtered == apply_repository_filters(
                          structure[k].repositories, repo_include_patterns,
                          repo_exclude_patterns, auto_discovery_max_repos)
          dest == IF migration_mode /\ discovered_workspace_mapping.set
                  THEN MappingGet(discovered_workspace_mapping, slug)
                  ELSE None
      IN  [j \in 1..Len(filtered) |-> QueueRecord(filtered[j], slug, dest)]
          \o flatten_discovered_structure_to_repositories(structure, k + 1)

\* get_all_workspaces_repositories stores each listing under the key 'repos';
\* flatten_workspace_repositories reads data.get('repositories', []).
WorkspaceEntry(slug, repos) == [slug |-> slug, repos |-> repos]

RECURSIVE flatten_workspace_repositories(_, _)
flatten_workspace_repositories(pairs, k) ==
    IF k > Len(pairs) THEN <<>>
    ELSE
      LET data == pairs[k]
          listed == IF "repositories" \in DOMAIN data
                    THEN data["repositories"] ELSE <<>>
      IN  [j \in 1..Len(listed) |-> QueueRecord(listed[j], data.slug, None)]
          \o flatten_workspace_repositories(pairs, k + 1)

\* What the environment can answer a discovery with.  Workspaces come in
\* the order of WorkspacePool; a listing names its repositories in the order
\* of RepoNamePool; one discovery returns at most MaxRepos repositories.
Listings(n) ==
    {s \in SeqsUpTo(RepoRecords, n) :
        \A k \in 1..Len(s) : s[k].name = RepoNamePool[k]}

RECURSIVE Total(_, _)
Total(structure, k) ==
    IF k > Len(structure) THEN 0
    ELSE Len(structure[k].repositories) + Total(structure, k + 1)

\* One entry of the map discover_all_repositories_in_workspaces builds; the
\* key 'error' is there (not None) only on the entry the except clause made.
DiscoveryEntry(slug, repos, error) ==
    [slug |-> slug, repositories |-> repos, repo_count |-> Len(repos),
     error |-> error]

\* The entries a scan can make from the listings given.
WorkspaceEntries(listings) ==
    {DiscoveryEntry(slug, l, None) : slug \in WorkspaceSlugs, l \in listings}
    \cup {DiscoveryEntry(slug, <<>>, "exception") : slug \in WorkspaceSlugs}

Structures ==
    {s \in SeqsUpTo(WorkspaceEntries(Listings(MaxRepos)), Len(WorkspacePool)) :
        /\ \A k \in 1..Len(s) : s[k].slug = WorkspacePool[k]
        /\ Total(s, 1) <= MaxRepos}

\* The same discoveries as get_all_workspaces_repositories records them.
PairStructures ==
    {[k \in 1..Len(s) |-> WorkspaceEntry(s[k].slug, s[k].repositories)] :
        s \in Structures}

RunFails(error) ==
    /\ backup_stats' = [backup_stats EXCEPT !.errors = Append(@, error)]
    /\ result' = "False"
    /\ pc' = "exit"

\* backup_all_repositories, "Determine repository discovery method".
Discover ==
    /\ pc = "discover"
    /\ IF auto_discover_all
       THEN \E structure \in Structures :
              /\ complete_structure' = structure
              /\ UNCHANGED workspace_repositories
              /\ IF structure = <<>>
                 THEN /\ RunFails("Auto-discovery failed")
                      /\ UNCHANGED <<repositories, ws_idx>>
                 ELSE IF migration_mode
                 THEN /\ pc' = "ws_structure"
                      /\ ws_idx' = 1
                      /\ UNCHANGED <<repositories, backup_stats, result>>
                 ELSE /\ repositories' =
                            flatten_discovered_structure_to_repositories(structure, 1)
                      /\ pc' = "check_repos"
                      /\ UNCHANGED <<ws_idx, backup_stats, result>>
       ELSE IF multi_workspace_mode
       THEN \E pairs \in PairStructures :
              /\ workspace_repositories' = pairs
              /\ repositories' = flatten_workspace_repositories(pairs, 1)
              /\ pc' = "check_repos"
              /\ UNCHANGED <<complete_structure, ws_idx, backup_stats, result>>
       ELSE \E listing \in Listings(MaxRepos) :
              /\ repositories' =
                     [j \in 1..Len(listing) |-> QueueRecord(listing[j], None, None)]
              /\ pc' = "check_repos"
              /\ UNCHANGED <<complete_structure, workspace_repositories,
                             ws_idx, backup_stats, result>>
    /\ UNCHANGED <<cfgVars, pageVars, restoreVars, fsVars, discovered_workspaces, filtered_workspaces,
                   scanned, auth, original_auth, discovered_workspace_mapping,
                   existing_dest_repos, iterVars, success_count, calls,
                   sleeps, exit_code>>

\* create_workspace_if_needed: what the destination can answer.
WorkspaceOutcomes ==
    IF ~create_missing_workspaces THEN {"not_checked"}
    ELSE IF skip_existing_workspaces THEN {"exists", "missing", "error"}
    ELSE {"exists", "created", "refused", "error"}

create_workspace_if_needed(outcome) == outcome \in {"not_checked", "exists", "created"}

WorkspaceCalls(outcome, dest_ws) ==
    IF outcome = "not_checked" THEN <<>>
    ELSE IF outcome \in {"created", "refused"}
    THEN <<Call("ws_get", 0, dest_ws, "missing"),
           Call("ws_create", 0, dest_ws, outcome)>>
    ELSE <<Call("ws_get", 0, dest_ws, outcome)>>

\* create_destination_workspace_structure, one workspace per step; after the
\* last one the mapping is stored and the structure is flattened.
CreateDestinationWorkspace ==
    /\ pc = "ws_structure"
    /\ \E outcome \in WorkspaceOutcomes :
         LET source_ws == complete_structure[ws_idx].slug
             dest_ws == determine_destination_workspace_name(source_ws)
             map == IF create_workspace_if_needed(outcome)
                    THEN discovered_workspace_mapping.map \cup {<<source_ws, dest_ws>>}
                    ELSE discovered_workspace_mapping.map
             last == ws_idx = Len(complete_structure)
         IN  /\ calls' = calls \o WorkspaceCalls(outcome, dest_ws)
             /\ discovered_workspace_mapping' = [set |-> last, map |-> map]
             /\ ws_idx' = ws_idx + 1
             /\ pc' = IF last THEN "flatten" ELSE "ws_structure"
    /\ UNCHANGED <<cfgVars, pageVars, restoreVars, fsVars, scanVars, auth, original_auth, complete_structure,
                   repositories, existing_dest_repos, iterVars, success_count,
                   backup_stats, sleeps, result, exit_code>>

Flatten ==
    /\ pc = "flatten"
    /\ repositories' =
           flatten_discovered_structure_to_repositories(complete_structure, 1)
    /\ pc' = "check_repos"
    /\ UNCHANGED <<cfgVars, pageVars, restoreVars, fsVars, scanVars, auth, original_auth, complete_structure, ws_idx,
                   discovered_workspace_mapping, existing_dest_repos, iterVars,
                   success_count, backup_stats, calls, sleeps, result, exit_code>>

\* "if not repositories": the run fails before anything is processed.
CheckRepositories ==
    /\ pc = "check_repos"
    /\ IF repositories = <<>>
       THEN RunFails("No repositories found")
       ELSE pc' = "fetch_dest" /\ UNCHANGED <<backup_stats, result>>
    /\ UNCHANGED <<cfgVars, pageVars, restoreVars, fsVars, scanVars, auth, original_auth, discVars, iterVars,
                   success_count, calls, sleeps, exit_code>>

\* self.dest_workspace: DEST_BITBUCKET_WORKSPACE, set once in __init__; here
\* the name the first discovered workspace is given on the destination.
ConfiguredDestWorkspace ==
    IF dest_config THEN determine_destination_workspace_name(WorkspacePool[1])
    ELSE ""

\* The workspace in the URL of a request sent for a repository of the queue:
\* repositories/{self.dest_workspace}/..., whatever the record says.
RequestWorkspace(repo) == ConfiguredDestWorkspace

\* self.timestamp: read from the clock once, in __init__.
RunTimestamp == "20240115_143310"

\* os.path.join(self.repos_dir, repo_name, self.timestamp)
timestamped_dir(repo) == <<"repositories", repo.name, RunTimestamp>>

\* os.path.join(self.metadata_dir, repo_name, self.timestamp, 'metadata.json')
metadata_file(repo) == <<"metadata", repo.name, RunTimestamp, "metadata.json">>

\* os.path.join(self.repos_dir, repo_name)
repo_backup_dir(repo) == <<"repositories", repo.name>>

\* The computed destination name of a source repository.
TargetName(repo_name) ==
    IF preserve_repo_names THEN repo_name ELSE RepoNamePrefix \o repo_name

TargetNames == {TargetName(n) : n \in RepoNames}

\* What the listing of the destination workspace can return.
DestListings == {e \in SUBSET TargetNames : Cardinality(e) <= MaxExisting}

\* get_destination_repositories (migration mode only), then "Update statistics".
GetDestinationRepositories ==
    /\ pc = "fetch_dest"
    /\ IF migration_mode
       THEN \E listing \in DestListings :
              /\ existing_dest_repos' = listing
              /\ calls' = Append(calls, Call("list_dest", 0, None, "listed"))
       ELSE UNCHANGED <<existing_dest_repos, calls>>
    /\ backup_stats' = [backup_stats EXCEPT !.total_repos = Len(repositories)]
    /\ success_count' = 0
    /\ idx' = 1
    /\ pc' = "loop"
    /\ UNCHANGED <<cfgVars, pageVars, restoreVars, fsVars, scanVars, auth, original_auth, complete_structure, ws_idx,
                   discovered_workspace_mapping, repositories, metadata_path,
                   local_repo_path, mirror_repo, repo_stats, sleeps, result,
                   exit_code>>

\* ------------------------------------------------------ repository loop
\* A record kept only for the repositories that succeeded.
AppendOnSuccess(details, stats) ==
    IF stats.success THEN Append(details, stats) ELSE details

\* The finally clause of the loop body.
AppendRepoStats(details, stats) == Append(details, stats)

\* A handler that leaves the loop instead of continuing it.
BreakAfterException(i, n) == n + 1

\* The "continue" of the except clause: the next queue position.
ContinueAfterException(i, n) == i + 1

\* An exception of the loop body: except clause, finally clause, continue.
ExceptionHandled ==
    /\ backup_stats' =
         [backup_stats EXCEPT
            !.errors = Append(@, "Error processing " \o repositories[idx].name),
            !.repo_details = AppendRepoStats(@, repo_stats)]
    /\ idx' = ContinueAfterException(idx, Len(repositories))
    /\ pc' = "loop"

\* Top of the loop body and step 1, backup_repository_metadata.  Each fetch
\* of the snapshot sits in its own try block, so the path is always returned.
StartRepository ==
    /\ pc = "loop"
    /\ idx <= Len(repositories)
    /\ repo_stats' = [name |-> repositories[idx].name, success |-> FALSE]
    /\ calls' = Append(calls, Call("snapshot", idx, repositories[idx].name, "written"))
    /\ metadata_path' = "metadata.json"
    /\ local_repo_path' = None
    /\ mirror_repo' = NoRepo
    /\ pc' = "clone"
    /\ UNCHANGED <<cfgVars, pageVars, restoreVars, fsVars, scanVars, auth, original_auth, discVars, idx, success_count,
                   backup_stats, sleeps, result, exit_code>>

\* clone_repository: what can happen for a repository record.
CloneOutcomes(repo) ==
    IF ~repo.https THEN {"no_https_url"}
    ELSE IF ~(HasAttr("bitbucket_username") /\ HasAttr("bitbucket_api_token"))
    THEN {"AttributeError"}
    ELSE {"mirror_failed", "timeout", "error", "cloned", "no_working_copy"}

CloneRaises(outcome) == outcome = "AttributeError"

\* A clone that reports its directory only when the working copy was made too.
CloneNeedsWorkingCopy(outcome) ==
    IF outcome = "cloned" THEN "timestamped_dir" ELSE None

clone_repository(outcome) ==
    IF outcome \in {"cloned", "no_working_copy"} THEN "timestamped_dir" ELSE None

\* The time an entry made now gets: later than every entry of the directory.
Now(dir) ==
    LET times == {dir.files[i] : i \in 1..Len(dir.files)}
                 \cup {dir.dirs[i] : i \in 1..Len(dir.dirs)}
    IN  IF times = {} THEN 1
        ELSE (CHOOSE t \in times : \A u \in times : u <= t) + 1

\* os.makedirs(timestamped_dir): clone_repository makes the directory of the
\* run once it has found the HTTPS link, before anything can raise.
MakeTimestampedDir(dir) ==
    [exists |-> TRUE, files |-> dir.files, dirs |-> Append(dir.dirs, Now(dir))]

\* Step 2.
CloneRepository ==
    /\ pc = "clone"
    /\ repos_dir' = IF repositories[idx].https
                    THEN [repos_dir EXCEPT
                            ![repositories[idx].name] = MakeTimestampedDir(@)]
                    ELSE repos_dir
    /\ UNCHANGED cleanup_report
    /\ \E outcome \in CloneOutcomes(repositories[idx]) :
         /\ calls' = Append(calls, Call("clone", idx, repositories[idx].name,
                                         outcome))
         /\ IF CloneRaises(outcome)
            THEN ExceptionHandled /\ UNCHANGED local_repo_path
            ELSE /\ local_repo_path' = clone_repository(outcome)
                 /\ pc' = "create"
                 /\ UNCHANGED <<idx, backup_stats>>
    /\ UNCHANGED <<cfgVars, pageVars, restoreVars, scanVars, auth, original_auth, discVars, metadata_path,
                   mirror_repo, repo_stats, success_count, sleeps, result,
                   exit_code>>

\* create_migrated_repository(repo, existing_dest_repos): outcome is what the
\* destination answers the create request with, when one is sent.
create_migrated_repository(repo, existing, outcome) ==
    LET target_name == TargetName(repo.name)
    IN  IF existing # {} /\ target_name \in existing /\ skip_existing_repos
        THEN [repo |-> [name |-> target_name, origin |-> "existing"],
              posted |-> FALSE]
        ELSE [repo |-> IF outcome = "created"
                       THEN [name |-> target_name, origin |-> "created"]
                       ELSE NoRepo,
              posted |-> TRUE]

\* create_mirror_repository passes no existing_dest_repos (the default, None).
create_mirror_repository(repo, outcome) ==
    create_migrated_repository(repo, {}, outcome)

\* Without destination credentials and workspace the request cannot succeed.
CreateOutcomes == IF dest_config THEN {"created", "rejected"} ELSE {"rejected"}

\* Step 3.
CreateMirrorRepository ==
    /\ pc = "create"
    /\ \E outcome \in CreateOutcomes :
         LET r == create_mirror_repository(repositories[idx], outcome)
         IN  /\ mirror_repo' = r.repo
             /\ calls' = IF r.posted
                         THEN Append(calls, Call("repo_create", idx,
                                     TargetName(repositories[idx].name),
                                     outcome))
                         ELSE calls
    /\ pc' = "push"
    /\ UNCHANGED <<cfgVars, pageVars, restoreVars, fsVars, scanVars, auth, original_auth, discVars, idx, metadata_path,
                   local_repo_path, repo_stats, success_count, backup_stats,
                   sleeps, result, exit_code>>

\* What git and the destination record can answer one push_to_destination
\* call with.  A push that is not reached has the answer "-".  The exit
\* status of the push of the tags is not looked at, so it only returns or
\* times out.  A created destination record carries an HTTPS clone link and
\* a clone that returned its directory left repo.git in it.
PushOutcomes ==
    {g \in [dest_https : {TRUE}, mirror_dir : {TRUE},
            mirror : {"ok", "rejected", "timeout"},
            all : {"ok", "rejected", "timeout", "-"},
            tags : {"done", "timeout", "-"}] :
        /\ (g.all = "-") <=> (g.mirror # "rejected")
        /\ (g.tags = "-") <=> (g.all # "ok")}

GitPush(i, name, command, answer) == Call("git_" \o command, i, name, answer)

\* push_to_destination(local_repo_path, dest_repo): the git commands run and
\* the value returned.
push_to_destination(i, local, dest_repo, g) ==
    LET remote == <<GitPush(i, dest_repo.name, "remote_add", "done")>>
        mirror == remote \o <<GitPush(i, dest_repo.name, "push_mirror", g.mirror)>>
        all    == mirror \o <<GitPush(i, dest_repo.name, "push_all", g.all)>>
        tags   == all \o <<GitPush(i, dest_repo.name, "push_tags", g.tags)>>
    IN  IF local = None \/ dest_repo = NoRepo
        THEN [commands |-> <<>>, ok |-> FALSE]
        ELSE IF ~g.dest_https THEN [commands |-> <<>>, ok |-> FALSE]
        ELSE IF ~g.mirror_dir THEN [commands |-> <<>>, ok |-> FALSE]
        ELSE IF g.mirror = "timeout" THEN [commands |-> mirror, ok |-> FALSE]
        ELSE IF g.mirror = "ok" THEN [commands |-> mirror, ok |-> TRUE]
        ELSE IF g.all = "timeout" THEN [commands |-> all, ok |-> FALSE]
        ELSE IF g.all = "ok"
             THEN [commands |-> tags, ok |-> g.tags # "timeout"]
        ELSE [commands |-> all, ok |-> FALSE]

\* push_to_mirror hands both arguments on.
push_to_mirror(i, local, repo, g) == push_to_destination(i, local, repo, g)

\* Step 4: the value push_to_mirror returns is not looked at.
PushToMirror ==
    /\ pc = "push"
    /\ IF local_repo_path # None /\ mirror_repo # NoRepo
       THEN \E g \in PushOutcomes :
              LET r == push_to_mirror(idx, local_repo_path, mirror_repo, g)
              IN  calls' = Append(calls,
                                  Call("push", idx, mirror_repo.name,
                                       IF r.ok THEN "pushed" ELSE "push_failed"))
                           \o r.commands
       ELSE UNCHANGED calls
    /\ pc' = "restore"
    /\ UNCHANGED <<cfgVars, pageVars, restoreVars, fsVars, scanVars, auth, original_auth, discVars, iterVars,
                   success_count, backup_stats, sleeps, result, exit_code>>

\* Step 5, up to the switch to the destination credentials.
\* A step-5 guard that does not look at the destination record.
RestoreGuardWithoutRecord == migration_mode /\ metadata_path # None

\* Step 5 guard: migration mode, a snapshot and a destination record.
RestoreGuard == migration_mode /\ metadata_path # None /\ mirror_repo # NoRepo

SwitchToDestinationAuth ==
    /\ pc = "restore"
    /\ IF RestoreGuard
       THEN /\ original_auth' = auth
            /\ auth' = "dest"
            /\ pc' = "restoring"
       ELSE /\ pc' = "archive"
            /\ UNCHANGED <<auth, original_auth>>
    /\ UNCHANGED <<cfgVars, pageVars, restoreVars, fsVars, scanVars, discVars, iterVars, success_count, backup_stats,
                   calls, sleeps, result, exit_code>>

\* The snapshot holds items only if its fetches could build their endpoint;
\* with nothing to restore restore_repository_metadata cannot raise.
RestoreOutcomes ==
    IF HasAttr("bitbucket_workspace") THEN {"restored", "raised"}
    ELSE {"restored"}

\* A switch back that is made only when the restoration returned.
AuthRestoredOnReturn(outcome) ==
    IF outcome = "raised" THEN auth ELSE original_auth

\* "finally: self.auth = original_auth", whatever the restoration did.
AuthAfterRestore(outcome) == original_auth

\* Step 5, the try / except / finally around restore_repository_metadata.
RestoreRepositoryMetadata ==
    /\ pc = "restoring"
    /\ \E outcome \in RestoreOutcomes :
         /\ calls' = Append(calls, Call("restore", idx, mirror_repo.name, outcome))
         /\ auth' = AuthAfterRestore(outcome)
    /\ pc' = "archive"
    /\ UNCHANGED <<cfgVars, pageVars, restoreVars, fsVars, scanVars, original_auth, discVars, iterVars, success_count,
                   backup_stats, sleeps, result, exit_code>>

\* create_compressed_backup returns the archive path, or None on an error.
ArchiveOutcomes == {"archived", "failed"}

\* The archive create_compressed_backup writes into the backup directory.
WriteArchive(dir) ==
    [exists |-> TRUE, files |-> Append(dir.files, Now(dir)), dirs |-> dir.dirs]

\* Step 6.
CreateCompressedBackup ==
    /\ pc = "archive"
    /\ IF local_repo_path # None /\ metadata_path # None
       THEN \E outcome \in ArchiveOutcomes :
              /\ calls' = Append(calls, Call("archive", idx,
                                             repositories[idx].name, outcome))
              /\ repos_dir' = IF outcome = "archived"
                              THEN [repos_dir EXCEPT
                                      ![repositories[idx].name] = WriteArchive(@)]
                              ELSE repos_dir
       ELSE UNCHANGED <<calls, repos_dir>>
    /\ pc' = "cleanup"
    /\ UNCHANGED <<cfgVars, pageVars, restoreVars, cleanup_report, scanVars, auth, original_auth, discVars, iterVars,
                   success_count, backup_stats, sleeps, result, exit_code>>

\* A ranking that puts the oldest entry first.
RankOldestFirst(times, i) ==
    1 + Cardinality({j \in 1..Len(times) :
                        \/ times[j] < times[i]
                        \/ times[j] = times[i] /\ j < i})

\* The place of entry i after sort(key = mtime, reverse = True): newest
\* first, entries of one mtime in the order they were listed (the sort is
\* stable).
RankNewestFirst(times, i) ==
    1 + Cardinality({j \in 1..Len(times) :
                        \/ times[j] > times[i]
                        \/ times[j] = times[i] /\ j < i})

\* backup_files[self.max_backups:], as the set of the entries named.
files_to_remove(times, keep) ==
    {i \in 1..Len(times) : RankNewestFirst(times, i) > keep}

\* A removal loop that stops at the first entry it cannot remove.
RemovedUntilError(times, candidates, errors) ==
    {i \in candidates :
        \A e \in candidates \cap errors :
            RankNewestFirst(times, i) < RankNewestFirst(times, e)}

\* The removal loop: each candidate in its own try block; the ones whose
\* removal raised stay.
Removed(times, candidates, errors) == candidates \ errors

\* The listing without the entries removed.
Remaining(times, removed) ==
    LET kept == {i \in 1..Len(times) : i \notin removed}
    IN  [k \in 1..Cardinality(kept) |->
            times[CHOOSE i \in kept :
                    Cardinality({j \in kept : j < i}) = k - 1]]

\* The entries cleanup_old_backups tries to remove from a directory.
FileCandidates(dir, keep) ==
    IF dir.exists /\ Len(dir.files) > keep
    THEN files_to_remove(dir.files, keep) ELSE {}

DirCandidates(dir, keep) ==
    IF dir.exists /\ Len(dir.files) > keep /\ Len(dir.dirs) > keep
    THEN files_to_remove(dir.dirs, keep) ELSE {}

\* cleanup_old_backups on a directory; file_errors and dir_errors are the
\* entries whose removal raises.
cleanup_old_backups(dir, keep, file_errors, dir_errors) ==
    IF ~dir.exists THEN [dir |-> dir, report |-> NoReport]
    ELSE IF Len(dir.files) <= keep
    THEN [dir |-> dir, report |-> [NoReport EXCEPT !.files = dir.files]]
    ELSE
      LET candidates == files_to_remove(dir.files, keep)
          removed == Removed(dir.files, candidates, file_errors)
          dir_candidates == IF Len(dir.dirs) > keep
                            THEN files_to_remove(dir.dirs, keep) ELSE {}
          removed_dirs == Removed(dir.dirs, dir_candidates, dir_errors)
      IN  [dir |-> [exists |-> TRUE,
                    files |-> Remaining(dir.files, removed),
                    dirs |-> Remaining(dir.dirs, removed_dirs)],
           report |-> [files |-> dir.files, removed |-> removed,
                       errors |-> candidates \cap file_errors,
                       dirs |-> dir.dirs, removed_dirs |-> removed_dirs,
                       dir_errors |-> dir_candidates \cap dir_errors]]

\* Step 7, the success bookkeeping and the finally clause.
CleanupAndRecord ==
    /\ pc = "cleanup"
    /\ \E file_errors \in SUBSET FileCandidates(repos_dir[repositories[idx].name],
                                                max_backups),
          dir_errors \in SUBSET DirCandidates(repos_dir[repositories[idx].name],
                                              max_backups) :
         LET cleaned == cleanup_old_backups(repos_dir[repositories[idx].name],
                                            max_backups, file_errors, dir_errors)
         IN  /\ repos_dir' = [repos_dir EXCEPT
                                ![repositories[idx].name] = cleaned.dir]
             /\ cleanup_report' = cleaned.report
             /\ calls' = Append(calls,
                                Call("retain", idx, repositories[idx].name,
                                     IF file_errors = {} /\ dir_errors = {}
                                     THEN "done" ELSE "removal_errors"))
    /\ success_count' = success_count + 1
    /\ repo_stats' = [repo_stats EXCEPT !.success = TRUE]
    /\ backup_stats' = [backup_stats EXCEPT
                          !.repo_details = AppendRepoStats(@, repo_stats')]
    /\ pc' = "sleep"
    /\ UNCHANGED <<cfgVars, pageVars, restoreVars, scanVars, auth, original_auth, discVars, idx, metadata_path,
                   local_repo_path, mirror_repo, sleeps, result, exit_code>>

\* time.sleep(1), then the next repository.
Sleep ==
    /\ pc = "sleep"
    /\ sleeps' = sleeps + 1
    /\ idx' = idx + 1
    /\ pc' = "loop"
    /\ UNCHANGED <<cfgVars, pageVars, restoreVars, fsVars, scanVars, auth, original_auth, discVars, metadata_path,
                   local_repo_path, mirror_repo, repo_stats, success_count,
                   backup_stats, calls, result, exit_code>>

\* A run that counts as successful as soon as one repository succeeded.
AnySuccess(successes, total) == successes > 0

\* overall_success
OverallSuccess(successes, total) == successes = total

\* "Update final statistics" to the return.
FinalStatistics ==
    /\ pc = "loop"
    /\ idx > Len(repositories)
    /\ backup_stats' = [backup_stats EXCEPT
                          !.successful_repos = success_count,
                          !.failed_repos = Len(repositories) - success_count]
    /\ result' = Bool(OverallSuccess(success_count, Len(repositories)))
    /\ pc' = "exit"
    /\ UNCHANGED <<cfgVars, pageVars, restoreVars, fsVars, scanVars, auth, original_auth, discVars, iterVars,
                   success_count, calls, sleeps, exit_code>>

Next ==
    \/ Main \/ MainExit \/ Validate \/ Discover
    \/ CreateDestinationWorkspace \/ Flatten \/ CheckRepositories
    \/ GetDestinationRepositories \/ StartRepository \/ CloneRepository
    \/ CreateMirrorRepository \/ PushToMirror \/ SwitchToDestinationAuth
    \/ RestoreRepositoryMetadata \/ CreateCompressedBackup
    \/ CleanupAndRecord \/ Sleep \/ FinalStatistics

Spec == Init /\ [][Next]_vars

\* ------------------------------------------------- the loop with git
\* The code after line 1243 of clone_repository (git clone, and with it the
\* push and the archive) runs only on an object that has the attributes of
\* LegacyAttrs.  GitSpec is the repository loop of a single-workspace run on
\* such an object, from the entry of the loop, over a queue of repositories
\* that carry an HTTPS clone link.
GitQueues ==
    {[j \in 1..n |->
        QueueRecord([name |-> RepoNamePool[j], https |-> TRUE], None, None)] :
     n \in 1..MaxRepos}

GitInit ==
    /\ migration_mode \in BOOLEAN
    /\ auto_discover_all = FALSE
    /\ multi_workspace_mode = FALSE
    /\ skip_existing_repos = TRUE
    /\ preserve_repo_names = TRUE
    /\ create_missing_workspaces = TRUE
    /\ skip_existing_workspaces = TRUE
    /\ source_creds = TRUE
    /\ source_workspace = TRUE
    /\ dest_config = TRUE
    /\ repo_include_patterns = <<>>
    /\ repo_exclude_patterns = <<>>
    /\ auto_discovery_max_repos = DefaultMaxRepos
    /\ workspace_include_patterns = <<>>
    /\ workspace_exclude_patterns = <<>>
    /\ attrs = InitAttrs \cup LegacyAttrs
    /\ max_backups = DefaultMaxBackups
    /\ restore_metadata = DefaultRestoreSwitches
    /\ user_mapping = NoUserMapping
    /\ metadata = NoMetadata
    /\ written = <<>>
    /\ repos_dir = [n \in RepoNames |-> NoDir]
    /\ cleanup_report = NoReport
    /\ next_url = None
    /\ all_data = <<>>
    /\ discovered_workspaces = <<>>
    /\ filtered_workspaces = <<>>
    /\ scanned = <<>>
    /\ workspace_repositories = <<>>
    /\ pc = "loop"
    /\ auth = "source"
    /\ original_auth = None
    /\ complete_structure = <<>>
    /\ ws_idx = 0
    /\ discovered_workspace_mapping = NoMapping
    /\ repositories \in GitQueues
    /\ existing_dest_repos = {}
    /\ idx = 1
    /\ metadata_path = None
    /\ local_repo_path = None
    /\ mirror_repo = NoRepo
    /\ repo_stats = NoStats
    /\ success_count = 0
    /\ backup_stats = [total_repos |-> Len(repositories), successful_repos |-> 0,
                       failed_repos |-> 0, repo_details |-> <<>>,
                       errors |-> <<>>]
    /\ calls = IF migration_mode
               THEN <<Call("list_dest", 0, None, "listed")>>
               ELSE <<>>
    /\ sleeps = 0
    /\ result = None
    /\ exit_code = -1

GitNext ==
    \/ StartRepository \/ CloneRepository \/ CreateMirrorRepository
    \/ PushToMirror \/ SwitchToDestinationAuth \/ RestoreRepositoryMetadata
    \/ CreateCompressedBackup \/ CleanupAndRecord \/ Sleep
    \/ FinalStatistics \/ MainExit

GitSpec == GitInit /\ [][GitNext]_vars

\* ------------------------------------------------------------- retention
\* RetainSpec is the repository loop of a backup run of the program as it
\* is, over two repositories that carry no HTTPS clone link (the ones that
\* get as far as step 7), on a volume where the backup directory of the
\* first one holds archives and directories of earlier runs.
BackupDirs ==
    {NoDir} \cup
    {[exists |-> TRUE, files |-> f, dirs |-> d] :
        f \in SeqsUpTo(MtimePool, MaxArchives),
        d \in SeqsUpTo(DirMtimePool, MaxDirs)}

RetainQueue ==
    [j \in 1..2 |->
        QueueRecord([name |-> RepoNamePool[j], https |-> FALSE], None, None)]

RetainInit ==
    /\ migration_mode = FALSE
    /\ auto_discover_all = FALSE
    /\ multi_workspace_mode = FALSE
    /\ skip_existing_repos = TRUE
    /\ preserve_repo_names = TRUE
    /\ create_missing_workspaces = TRUE
    /\ skip_existing_workspaces = TRUE
    /\ source_creds = TRUE
    /\ source_workspace = TRUE
    /\ dest_config = FALSE
    /\ repo_include_patterns = <<>>
    /\ repo_exclude_patterns = <<>>
    /\ auto_discovery_max_repos = DefaultMaxRepos
    /\ workspace_include_patterns = <<>>
    /\ workspace_exclude_patterns = <<>>
    /\ attrs = InitAttrs
    /\ max_backups \in 0..MaxKeep
    /\ restore_metadata = DefaultRestoreSwitches
    /\ user_mapping = NoUserMapping
    /\ metadata = NoMetadata
    /\ written = <<>>
    /\ \E dir \in BackupDirs :
         repos_dir = [n \in RepoNames |->
                        IF n = RetainQueue[1].name THEN dir ELSE NoDir]
    /\ cleanup_report = NoReport
    /\ next_url = None
    /\ all_data = <<>>
    /\ discovered_workspaces = <<>>
    /\ filtered_workspaces = <<>>
    /\ scanned = <<>>
    /\ workspace_repositories = <<>>
    /\ pc = "loop"
    /\ auth = "source"
    /\ original_auth = None
    /\ complete_structure = <<>>
    /\ ws_idx = 0
    /\ discovered_workspace_mapping = NoMapping
    /\ repositories = RetainQueue
    /\ existing_dest_repos = {}
    /\ idx = 1
    /\ metadata_path = None
    /\ local_repo_path = None
    /\ mirror_repo = NoRepo
    /\ repo_stats = NoStats
    /\ success_count = 0
    /\ backup_stats = [total_repos |-> Len(repositories), successful_repos |-> 0,
                       failed_repos |-> 0, repo_details |-> <<>>,
                       errors |-> <<>>]
    /\ calls = <<>>
    /\ sleeps = 0
    /\ result = None
    /\ exit_code = -1

RetainNext ==
    \/ StartRepository \/ CloneRepository \/ CreateMirrorRepository
    \/ PushToMirror \/ SwitchToDestinationAuth
    \/ CreateCompressedBackup \/ CleanupAndRecord \/ Sleep
    \/ FinalStatistics \/ MainExit

RetainSpec == RetainInit /\ [][RetainNext]_vars

\* ------------------------------------------------------------ pagination
\* PageSpec is one call of fetch_paginated_data (fetch_paginated_data_with_auth
\* has the same loop): one request per step, the server free to answer each
\* request with an error or with a page of items and any 'next' link, the
\* link of the request just made included.
EndpointUrl == "endpoint"
NextLinks == {"endpoint?page=2", "endpoint?page=3"}
ItemPool == {"x", "y"}

\* What the server can answer a request with.  A fetch collects at most
\* MaxItems items: once it has them, the pages that follow are empty.
PageAnswers(collected) ==
    {[status |-> "error", values |-> <<>>, next |-> None]}
    \cup {[status |-> "ok", values |-> v, next |-> n] :
            v \in {w \in SeqsUpTo(ItemPool, 1) : collected + Len(w) <= MaxItems},
            n \in NextLinks \cup {EndpointUrl, None}}

\* One pass of "while next_url:".
FetchPage ==
    /\ pc = "fetch"
    /\ next_url # None
    /\ \E answer \in PageAnswers(Len(all_data)) :
         IF answer.status = "error"
         THEN /\ pc' = "fetched"
              /\ UNCHANGED <<next_url, all_data>>
         ELSE /\ all_data' = all_data \o answer.values
              /\ next_url' = answer.next
              /\ pc' = "fetch"
    /\ UNCHANGED <<cfgVars, fsVars, restoreVars, scanVars, auth, original_auth,
                   discVars, iterVars, success_count, backup_stats, calls,
                   sleeps, result, exit_code>>

\* The loop condition is false: return all_data.
ReturnAllData ==
    /\ pc = "fetch"
    /\ next_url = None
    /\ pc' = "fetched"
    /\ UNCHANGED <<cfgVars, fsVars, pageVars, restoreVars, scanVars, auth,
                   original_auth,
                   discVars, iterVars, success_count, backup_stats, calls,
                   sleeps, result, exit_code>>

PageInit ==
    /\ migration_mode \in BOOLEAN
    /\ auto_discover_all \in BOOLEAN
    /\ multi_workspace_mode = FALSE
    /\ skip_existing_repos = TRUE
    /\ preserve_repo_names = TRUE
    /\ create_missing_workspaces = TRUE
    /\ skip_existing_workspaces = TRUE
    /\ source_creds = TRUE
    /\ source_workspace = TRUE
    /\ dest_config = TRUE
    /\ repo_include_patterns = <<>>
    /\ repo_exclude_patterns = <<>>
    /\ auto_discovery_max_repos = DefaultMaxRepos
    /\ workspace_include_patterns = <<>>
    /\ workspace_exclude_patterns = <<>>
    /\ attrs = InitAttrs
    /\ max_backups = DefaultMaxBackups
    /\ restore_metadata = DefaultRestoreSwitches
    /\ user_mapping = NoUserMapping
    /\ metadata = NoMetadata
    /\ written = <<>>
    /\ repos_dir = [n \in RepoNames |-> NoDir]
    /\ cleanup_report = NoReport
    /\ next_url = EndpointUrl
    /\ all_data = <<>>
    /\ discovered_workspaces = <<>>
    /\ filtered_workspaces = <<>>
    /\ scanned = <<>>
    /\ workspace_repositories = <<>>
    /\ pc = "fetch"
    /\ auth = "source"
    /\ original_auth = None
    /\ complete_structure = <<>>
    /\ ws_idx = 0
    /\ discovered_workspace_mapping = NoMapping
    /\ repositories = <<>>
    /\ existing_dest_repos = {}
    /\ idx = 0
    /\ metadata_path = None
    /\ local_repo_path = None
    /\ mirror_repo = NoRepo
    /\ repo_stats = NoStats
    /\ success_count = 0
    /\ backup_stats = [total_repos |-> 0, successful_repos |-> 0,
                       failed_repos |-> 0, repo_details |-> <<>>,
                       errors |-> <<>>]
    /\ calls = <<>>
    /\ sleeps = 0
    /\ result = None
    /\ exit_code = -1

PageNext == FetchPage \/ ReturnAllData

\* Every request is answered: a pass of the loop that can be made is made.
PageSpec == PageInit /\ [][PageNext]_vars /\ WF_vars(PageNext)

\* ------------------------------------------------------------ restoration
\* RestoreSpec is one call of restore_repository_metadata on a snapshot that
\* holds issues, pull requests, wiki pages and deploy keys, one kind per
\* step.  Content is a sequence of lines.
KnownAuthor == [display_name |-> "Ann", username |-> "ann"]
\* "reporter": null in the snapshot.
NullAuthor == [display_name |-> None, username |-> None]
Authors == {KnownAuthor, NullAuthor}
CreatedOn == "2024-01-15T10:30:00"
\* datetime.now().strftime('%Y-%m-%d %H:%M:%S') at the time of the restoration.
MigrationDate == "2026-01-01 00:00:00"

CommentEntries == [user : Authors, created_on : {CreatedOn}, raw : {"a comment"}]
\* "assignee": null in the snapshot: the issue is unassigned.
IssueEntries ==
    [reporter : Authors, assignee : {NullAuthor}, created_on : {CreatedOn},
     raw : {"an issue"}, comments : SeqsUpTo(CommentEntries, MaxRestored)]
PullRequestEntries ==
    [author : {KnownAuthor}, created_on : {CreatedOn}, title : {"a change"}]
WikiEntries == [author : Authors, updated_on : {CreatedOn}, content : {"a page"}]
\* fetch_deploy_keys keeps the first 50 characters of the public key.
TruncatedPublicKey == "ssh-rsa AAAAB3NzaC1yc2EAAAADAQABAAABgQC7vbqajDhA0k..."
DeployKeyEntries ==
    [label : {"ci"}, created_on : {CreatedOn}, key : {TruncatedPublicKey},
     last_used : {"2024-02-01T08:00:00"}]

\* fetch_repository_permissions: the privileges of users, then of teams.
UserPermission == [type |-> "user_permission", user |-> KnownAuthor,
                   permission |-> "write"]
TeamPermission == [type |-> "team_permission", user |-> NullAuthor,
                   permission |-> "read"]
BranchRestriction == [kind |-> "push", pattern |-> "main"]
Webhook == [description |-> "ci", url |-> "https://ci.example/hook"]
WebhookWithoutUrl == [description |-> "old", url |-> ""]

\* Snapshots of a repository without permissions, branch restrictions and
\* webhooks.
Snapshots ==
    [issues : SeqsUpTo(IssueEntries, MaxRestored),
     pull_requests : SeqsUpTo(PullRequestEntries, MaxRestored),
     wiki : SeqsUpTo(WikiEntries, MaxRestored),
     permissions : {<<>>}, branch_restrictions : {<<>>}, webhooks : {<<>>},
     deploy_keys : SeqsUpTo(DeployKeyEntries, MaxRestored)]

\* original_author.get(...) raises AttributeError on None.
FormatRaises(original_author) == original_author = NullAuthor

\* content_type.title()
Title(content_type) ==
    CASE content_type = "issue" -> "Issue"
      [] content_type = "comment" -> "Comment"
      [] content_type = "wiki" -> "Wiki"

\* The header and then the original content (the header line of the source
\* also carries a pictograph before the words MIGRATED CONTENT).
format_migrated_content(original_content, content_type, original_author, created_date) ==
    <<"", "---", "**MIGRATED CONTENT**",
      "- **Original Author:** " \o original_author.display_name
          \o " (@" \o original_author.username \o ")",
      "- **Original Date:** " \o created_date,
      "- **Migration Date:** " \o MigrationDate,
      "- **Type:** " \o Title(content_type),
      "---", "", original_content>>

RECURSIVE PullRequestSections(_, _)
PullRequestSections(prs_data, k) ==
    IF k > Len(prs_data) THEN <<>>
    ELSE <<"", "## PR - " \o prs_data[k].title,
           "", "- **Author:** " \o prs_data[k].author.display_name,
           "- **Created:** " \o prs_data[k].created_on, "---">>
         \o PullRequestSections(prs_data, k + 1)

generate_pr_documentation(prs_data) ==
    <<"# Pull Requests Documentation", "",
      "**Repository migrated on:** " \o MigrationDate,
      "**Total PRs:** " \o ToString(Len(prs_data)), "", "---", "">>
    \o PullRequestSections(prs_data, 1)

RECURSIVE DeployKeySections(_, _)
DeployKeySections(deploy_keys_data, k) ==
    IF k > Len(deploy_keys_data) THEN <<>>
    ELSE <<"", "## Deploy Key: " \o deploy_keys_data[k].label,
           "", "- **Label:** " \o deploy_keys_data[k].label,
           "- **Read Only:** True",
           "- **Created:** " \o deploy_keys_data[k].created_on,
           "- **Last Used:** " \o deploy_keys_data[k].last_used, "",
           "**Public Key Fingerprint:** Not available", "",
           "**Action Required:** Manually add the corresponding private key to this repository's deploy keys section.",
           "", "---">>
         \o DeployKeySections(deploy_keys_data, k + 1)

generate_deploy_key_documentation(deploy_keys_data) ==
    <<"# Deploy Keys Documentation", "",
      "**Repository migrated on:** " \o MigrationDate,
      "**Total Deploy Keys:** " \o ToString(Len(deploy_keys_data)), "",
      "---", "">>
    \o DeployKeySections(deploy_keys_data, 1)

\* One request that writes an item at the destination.
Item(kind, content) == [kind |-> kind, content |-> content]

\* map_user_account found no destination user.
NoUser == [username |-> None]

MappedName(username) == (CHOOSE p \in user_mapping : p[1] = username)[2]

\* A mapping that gives every source user the same name at the destination.
MapToSameName(user_info) ==
    IF user_info = NullAuthor THEN NoUser
    ELSE [username |-> user_info.username]

\* map_user_account: the entry of USER_MAPPING for the user's name, if any.
map_user_account(user_info) ==
    IF user_info = NullAuthor THEN NoUser
    ELSE IF \E p \in user_mapping : p[1] = user_info.username
    THEN [username |-> MappedName(user_info.username)]
    ELSE NoUser

\* restore_issue_comments: a comment whose formatting raises is skipped.
RECURSIVE restore_issue_comments(_, _)
restore_issue_comments(comments_data, k) ==
    IF k > Len(comments_data) THEN <<>>
    ELSE (IF FormatRaises(comments_data[k].user) THEN <<>>
          ELSE <<Item("comment",
                      format_migrated_content(comments_data[k].raw, "comment",
                                              comments_data[k].user,
                                              comments_data[k].created_on))>>)
         \o restore_issue_comments(comments_data, k + 1)

\* restore_issues: created is the set of the issues whose request the
\* destination answers; only those get their comments restored.
RECURSIVE restore_issues(_, _, _)
restore_issues(issues_data, created, k) ==
    IF k > Len(issues_data) THEN <<>>
    ELSE (IF FormatRaises(issues_data[k].reporter) THEN <<>>
          ELSE <<[kind |-> "issue",
                  content |->
                      format_migrated_content(issues_data[k].raw, "issue",
                                              issues_data[k].reporter,
                                              issues_data[k].created_on),
                  assignee |-> map_user_account(issues_data[k].assignee)]>>
               \o (IF k \in created
                   THEN restore_issue_comments(issues_data[k].comments, 1)
                   ELSE <<>>))
         \o restore_issues(issues_data, created, k + 1)

RECURSIVE restore_wiki(_, _)
restore_wiki(pages, k) ==
    IF k > Len(pages) THEN <<>>
    ELSE (IF FormatRaises(pages[k].author) THEN <<>>
          ELSE <<Item("wiki",
                      format_migrated_content(pages[k].content, "wiki",
                                              pages[k].author,
                                              pages[k].updated_on))>>)
         \o restore_wiki(pages, k + 1)

\* The PUT of the wiki page; answered is whether make_api_request returned
\* a response.
WikiDocumentation(prs_data, wiki_created) ==
    [kind |-> "pr_documentation_wiki",
     content |-> generate_pr_documentation(prs_data),
     answered |-> wiki_created]

\* A documentation that is written to the wiki and to an issue.
DocumentTwice(prs_data, wiki_created) ==
    <<WikiDocumentation(prs_data, wiki_created),
      Item("pr_documentation_issue", generate_pr_documentation(prs_data))>>

\* The documentation goes to a wiki page and, when that request fails, to
\* an issue.
restore_pull_requests(prs_data, wiki_created) ==
    <<WikiDocumentation(prs_data, wiki_created)>>
    \o (IF wiki_created THEN <<>>
        ELSE <<Item("pr_documentation_issue",
                    generate_pr_documentation(prs_data))>>)

\* A restoration that also registers the keys of the snapshot on the
\* destination.
CreateDeployKeys(deploy_keys_data) ==
    <<Item("deploy_key", <<deploy_keys_data[1].key>>),
      Item("deploy_keys_documentation",
           generate_deploy_key_documentation(deploy_keys_data))>>

\* One issue that documents the keys; no request to the deploy-keys endpoint.
restore_deploy_keys(deploy_keys_data) ==
    <<Item("deploy_keys_documentation",
           generate_deploy_key_documentation(deploy_keys_data))>>

\* A sub-restore that looks only at the snapshot.
RestoreWhateverIsStored(switch, data) == data # <<>>

\* "if self.restore_metadata_<kind> and metadata.get(<kind>)"
SubRestoreGuard(switch, data) == switch /\ data # <<>>

RestoreIssues ==
    /\ pc = "restore_issues"
    /\ IF SubRestoreGuard(restore_metadata.issues, metadata.issues)
       THEN \E created \in SUBSET (1..Len(metadata.issues)) :
              written' = written \o restore_issues(metadata.issues, created, 1)
       ELSE UNCHANGED written
    /\ pc' = "restore_prs"
    /\ UNCHANGED <<cfgVars, fsVars, pageVars, metadata, scanVars, auth,
                   original_auth, discVars, iterVars, success_count,
                   backup_stats, calls, sleeps, result, exit_code>>

RestorePullRequests ==
    /\ pc = "restore_prs"
    /\ IF SubRestoreGuard(restore_metadata.prs, metadata.pull_requests)
       THEN \E wiki_created \in BOOLEAN :
              written' = written
                  \o restore_pull_requests(metadata.pull_requests, wiki_created)
       ELSE UNCHANGED written
    /\ pc' = "restore_wiki"
    /\ UNCHANGED <<cfgVars, fsVars, pageVars, metadata, scanVars, auth,
                   original_auth, discVars, iterVars, success_count,
                   backup_stats, calls, sleeps, result, exit_code>>

RestoreWiki ==
    /\ pc = "restore_wiki"
    /\ IF SubRestoreGuard(restore_metadata.wiki, metadata.wiki)
       THEN written' = written \o restore_wiki(metadata.wiki, 1)
       ELSE UNCHANGED written
    /\ pc' = "restore_permissions"
    /\ UNCHANGED <<cfgVars, fsVars, pageVars, metadata, scanVars, auth,
                   original_auth, discVars, iterVars, success_count,
                   backup_stats, calls, sleeps, result, exit_code>>

\* restore_permissions: one PUT per user permission whose user is mapped.
RECURSIVE restore_permissions(_, _)
restore_permissions(permissions_data, k) ==
    IF k > Len(permissions_data) THEN <<>>
    ELSE (IF permissions_data[k].type = "user_permission"
             /\ map_user_account(permissions_data[k].user) # NoUser
          THEN <<[kind |-> "permission",
                  content |-> <<permissions_data[k].permission>>,
                  user |-> map_user_account(permissions_data[k].user).username]>>
          ELSE <<>>)
         \o restore_permissions(permissions_data, k + 1)

RECURSIVE restore_branch_restrictions(_, _)
restore_branch_restrictions(restrictions_data, k) ==
    IF k > Len(restrictions_data) THEN <<>>
    ELSE <<Item("branch_restriction",
                <<restrictions_data[k].kind, restrictions_data[k].pattern>>)>>
         \o restore_branch_restrictions(restrictions_data, k + 1)

\* restore_webhooks: a webhook without URL is not created.
RECURSIVE restore_webhooks(_, _)
restore_webhooks(webhooks_data, k) ==
    IF k > Len(webhooks_data) THEN <<>>
    ELSE (IF webhooks_data[k].url # ""
          THEN <<Item("webhook",
                      <<"Migrated: " \o webhooks_data[k].description,
                        webhooks_data[k].url>>)>>
          ELSE <<>>)
         \o restore_webhooks(webhooks_data, k + 1)

RestorePermissions ==
    /\ pc = "restore_permissions"
    /\ IF SubRestoreGuard(restore_metadata.permissions, metadata.permissions)
       THEN written' = written \o restore_permissions(metadata.permissions, 1)
       ELSE UNCHANGED written
    /\ pc' = "restore_restrictions"
    /\ UNCHANGED <<cfgVars, fsVars, pageVars, metadata, scanVars, auth,
                   original_auth, discVars, iterVars, success_count,
                   backup_stats, calls, sleeps, result, exit_code>>

RestoreBranchRestrictions ==
    /\ pc = "restore_restrictions"
    /\ IF SubRestoreGuard(restore_metadata.restrictions, metadata.branch_restrictions)
       THEN written' = written
                \o restore_branch_restrictions(metadata.branch_restrictions, 1)
       ELSE UNCHANGED written
    /\ pc' = "restore_webhooks"
    /\ UNCHANGED <<cfgVars, fsVars, pageVars, metadata, scanVars, auth,
                   original_auth, discVars, iterVars, success_count,
                   backup_stats, calls, sleeps, result, exit_code>>

RestoreWebhooks ==
    /\ pc = "restore_webhooks"
    /\ IF SubRestoreGuard(restore_metadata.webhooks, metadata.webhooks)
       THEN written' = written \o restore_webhooks(metadata.webhooks, 1)
       ELSE UNCHANGED written
    /\ pc' = "restore_keys"
    /\ UNCHANGED <<cfgVars, fsVars, pageVars, metadata, scanVars, auth,
                   original_auth, discVars, iterVars, success_count,
                   backup_stats, calls, sleeps, result, exit_code>>

RestoreDeployKeys ==
    /\ pc = "restore_keys"
    /\ IF SubRestoreGuard(restore_metadata.deploy_keys, metadata.deploy_keys)
       THEN written' = written \o restore_deploy_keys(metadata.deploy_keys)
       ELSE UNCHANGED written
    /\ pc' = "restored"
    /\ UNCHANGED <<cfgVars, fsVars, pageVars, metadata, scanVars, auth,
                   original_auth, discVars, iterVars, success_count,
                   backup_stats, calls, sleeps, result, exit_code>>

RestoreInit ==
    /\ migration_mode = TRUE
    /\ auto_discover_all = FALSE
    /\ multi_workspace_mode = FALSE
    /\ skip_existing_repos = TRUE
    /\ preserve_repo_names = TRUE
    /\ create_missing_workspaces = TRUE
    /\ skip_existing_workspaces = TRUE
    /\ source_creds = TRUE
    /\ source_workspace = TRUE
    /\ dest_config = TRUE
    /\ repo_include_patterns = <<>>
    /\ repo_exclude_patterns = <<>>
    /\ auto_discovery_max_repos = DefaultMaxRepos
    /\ workspace_include_patterns = <<>>
    /\ workspace_exclude_patterns = <<>>
    /\ attrs = InitAttrs \cup LegacyAttrs
    /\ max_backups = DefaultMaxBackups
    /\ restore_metadata \in [issues : {TRUE}, prs : BOOLEAN, wiki : {TRUE},
                              permissions : {FALSE}, restrictions : {FALSE},
                              webhooks : {FALSE}, deploy_keys : BOOLEAN]
    /\ user_mapping = NoUserMapping
    /\ metadata \in Snapshots
    /\ written = <<>>
    /\ repos_dir = [n \in RepoNames |-> NoDir]
    /\ cleanup_report = NoReport
    /\ next_url = None
    /\ all_data = <<>>
    /\ discovered_workspaces = <<>>
    /\ filtered_workspaces = <<>>
    /\ scanned = <<>>
    /\ workspace_repositories = <<>>
    /\ pc = "restore_issues"
    /\ auth = "dest"
    /\ original_auth = "source"
    /\ complete_structure = <<>>
    /\ ws_idx = 0
    /\ discovered_workspace_mapping = NoMapping
    /\ repositories = <<>>
    /\ existing_dest_repos = {}
    /\ idx = 0
    /\ metadata_path = "metadata.json"
    /\ local_repo_path = None
    /\ mirror_repo = NoRepo
    /\ repo_stats = NoStats
    /\ success_count = 0
    /\ backup_stats = [total_repos |-> 0, successful_repos |-> 0,
                       failed_repos |-> 0, repo_details |-> <<>>,
                       errors |-> <<>>]
    /\ calls = <<>>
    /\ sleeps = 0
    /\ result = None
    /\ exit_code = -1

RestoreNext ==
    \/ RestoreIssues \/ RestorePullRequests \/ RestoreWiki
    \/ RestorePermissions \/ RestoreBranchRestrictions \/ RestoreWebhooks
    \/ RestoreDeployKeys

RestoreSpec == RestoreInit /\ [][RestoreNext]_vars

\* ------------------------------------------------------- steps 5 and 6
\* StepSpec is steps 5 and 6 of the loop body for one repository whose
\* snapshot was written: the guard of the restoration, the restoration one
\* kind per step, and the archive.  The snapshot file holds every kind, every
\* kind but one, or nothing.
AssignedIssue ==
    [reporter |-> KnownAuthor, assignee |-> KnownAuthor,
     created_on |-> CreatedOn, raw |-> "an issue", comments |-> <<>>]

UnassignedIssue == [AssignedIssue EXCEPT !.assignee = NullAuthor]

FullSnapshot ==
    [issues |-> <<AssignedIssue, UnassignedIssue>>,
     pull_requests |-> <<[author |-> KnownAuthor, created_on |-> CreatedOn,
                          title |-> "a change"]>>,
     wiki |-> <<[author |-> KnownAuthor, updated_on |-> CreatedOn,
                 content |-> "a page"]>>,
     permissions |-> <<UserPermission, TeamPermission>>,
     branch_restrictions |-> <<BranchRestriction>>,
     webhooks |-> <<Webhook, WebhookWithoutUrl>>,
     deploy_keys |-> <<[label |-> "ci", created_on |-> CreatedOn,
                        key |-> TruncatedPublicKey,
                        last_used |-> "2024-02-01T08:00:00"]>>]

StoredSnapshots ==
    {FullSnapshot, NoMetadata}
    \cup {[FullSnapshot EXCEPT ![kind] = <<>>] : kind \in DOMAIN FullSnapshot}

\* USER_MAPPING: unset, or {"ann": "anna"}.
UserMappings == {NoUserMapping, {<<"ann", "anna">>}}

\* restore_repository_metadata: json.load of the snapshot file.
LoadMetadata ==
    /\ pc = "restoring"
    /\ metadata' \in StoredSnapshots
    /\ pc' = "restore_issues"
    /\ UNCHANGED <<cfgVars, fsVars, pageVars, written, scanVars, auth,
                   original_auth, discVars, iterVars, success_count,
                   backup_stats, calls, sleeps, result, exit_code>>

\* restore_repository_metadata returns its counts; the finally clause of
\* step 5 switches back to the source credentials.
ReturnRestorationResults ==
    /\ pc = "restored"
    /\ calls' = Append(calls, Call("restore", idx, mirror_repo.name, "restored"))
    /\ auth' = AuthAfterRestore("restored")
    /\ pc' = "archive"
    /\ UNCHANGED <<cfgVars, fsVars, pageVars, restoreVars, scanVars,
                   original_auth, discVars, iterVars, success_count,
                   backup_stats, sleeps, result, exit_code>>

StepInit ==
    /\ migration_mode \in BOOLEAN
    /\ auto_discover_all = FALSE
    /\ multi_workspace_mode = FALSE
    /\ skip_existing_repos = TRUE
    /\ preserve_repo_names = TRUE
    /\ create_missing_workspaces = TRUE
    /\ skip_existing_workspaces = TRUE
    /\ source_creds = TRUE
    /\ source_workspace = TRUE
    /\ dest_config = TRUE
    /\ repo_include_patterns = <<>>
    /\ repo_exclude_patterns = <<>>
    /\ auto_discovery_max_repos = DefaultMaxRepos
    /\ workspace_include_patterns = <<>>
    /\ workspace_exclude_patterns = <<>>
    /\ attrs = InitAttrs \cup LegacyAttrs
    /\ max_backups = DefaultMaxBackups
    /\ restore_metadata \in [DOMAIN DefaultRestoreSwitches -> BOOLEAN]
    /\ user_mapping \in UserMappings
    /\ metadata = NoMetadata
    /\ written = <<>>
    /\ repos_dir = [n \in RepoNames |-> NoDir]
    /\ cleanup_report = NoReport
    /\ next_url = None
    /\ all_data = <<>>
    /\ discovered_workspaces = <<>>
    /\ filtered_workspaces = <<>>
    /\ scanned = <<>>
    /\ workspace_repositories = <<>>
    /\ pc = "restore"
    /\ auth = "source"
    /\ original_auth = None
    /\ complete_structure = <<>>
    /\ ws_idx = 0
    /\ discovered_workspace_mapping = NoMapping
    /\ repositories =
           <<QueueRecord([name |-> RepoNamePool[1], https |-> TRUE], None, None)>>
    /\ existing_dest_repos = {}
    /\ idx = 1
    /\ metadata_path = "metadata.json"
    /\ local_repo_path \in {None, "timestamped_dir"}
    /\ mirror_repo \in {NoRepo, [name |-> RepoNamePool[1], origin |-> "created"]}
    /\ repo_stats = [name |-> RepoNamePool[1], success |-> FALSE]
    /\ success_count = 0
    /\ backup_stats = [total_repos |-> 1, successful_repos |-> 0,
                       failed_repos |-> 0, repo_details |-> <<>>,
                       errors |-> <<>>]
    /\ calls = <<>>
    /\ sleeps = 0
    /\ result = None
    /\ exit_code = -1

StepNext ==
    \/ SwitchToDestinationAuth \/ LoadMetadata
    \/ RestoreIssues \/ RestorePullRequests \/ RestoreWiki
    \/ RestorePermissions \/ RestoreBranchRestrictions \/ RestoreWebhooks
    \/ RestoreDeployKeys \/ ReturnRestorationResults
    \/ CreateCompressedBackup

StepSpec == StepInit /\ [][StepNext]_vars

\* -------------------------------------------------------------- snapshot
\* SnapshotSpec is one call of backup_repository_metadata, one sub-resource
\* per step, on an object with or without the attribute bitbucket_workspace.
\* The source holds two pages of one item for every sub-resource.
SnapshotKinds ==
    <<"pull_requests", "issues", "branches", "tags", "permissions", "wiki",
      "repository_settings", "branch_restrictions", "webhooks", "deploy_keys">>

SourcePages == <<"x", "y">>

\* The value the except clause (or the helper) leaves for a sub-resource:
\* [] for the lists, None for the wiki, {} for the settings.
EmptyField == <<>>

\* What one fetch can end with.  "raised": an exception in the try block
\* (always, when the endpoint cannot be built).  "http_error": the first
\* request failed.  "http_error_later_page": a request after the first page
\* failed; fetch_paginated_data returns the pages it had.  The settings are
\* read with single requests.
FetchOutcomes(kind) ==
    IF ~HasAttr("bitbucket_workspace") THEN {"raised"}
    ELSE IF kind = "repository_settings"
    THEN {"fetched", "http_error", "raised"}
    ELSE {"fetched", "http_error", "http_error_later_page", "raised"}

\* The value stored in the field.
FieldValue(outcome) ==
    IF outcome = "fetched" THEN SourcePages
    ELSE IF outcome = "http_error_later_page" THEN SubSeq(SourcePages, 1, 1)
    ELSE EmptyField

FailedFetches ==
    Cardinality({k \in 1..Len(calls) :
                    calls[k].op = "fetch" /\ calls[k].outcome # "fetched"})

KindIndex(kind) == CHOOSE k \in 1..Len(SnapshotKinds) : SnapshotKinds[k] = kind

\* The cap on the failures of one snapshot; without the attribute every
\* fetch raises.
FailureAllowed ==
    IF HasAttr("bitbucket_workspace") THEN FailedFetches < MaxFailures ELSE TRUE

AfterKind(kind) ==
    IF KindIndex(kind) = Len(SnapshotKinds) THEN "save"
    ELSE SnapshotKinds[KindIndex(kind) + 1]

\* One "try: fetch ... except: field = empty" of backup_repository_metadata.
FetchSubResource ==
    /\ pc \in Range(SnapshotKinds)
    /\ \E outcome \in FetchOutcomes(pc) :
         /\ outcome # "fetched" => FailureAllowed
         /\ calls' = Append(calls, Call("fetch", 0, pc, outcome))
         /\ metadata' = metadata @@ (pc :> FieldValue(outcome))
         /\ pc' = AfterKind(pc)
    /\ UNCHANGED <<cfgVars, fsVars, pageVars, written, scanVars, auth,
                   original_auth, discVars, iterVars, success_count,
                   backup_stats, sleeps, result, exit_code>>

\* "Save metadata to JSON file" and return its path.
SaveMetadata ==
    /\ pc = "save"
    /\ metadata_path' = "metadata.json"
    /\ calls' = Append(calls, Call("snapshot", 0, "metadata.json", "written"))
    /\ pc' = "saved"
    /\ UNCHANGED <<cfgVars, fsVars, pageVars, restoreVars, scanVars, auth,
                   original_auth, discVars, idx, local_repo_path, mirror_repo,
                   repo_stats, success_count, backup_stats, sleeps, result,
                   exit_code>>

SnapshotInit ==
    /\ migration_mode \in BOOLEAN
    /\ auto_discover_all = FALSE
    /\ multi_workspace_mode = FALSE
    /\ skip_existing_repos = TRUE
    /\ preserve_repo_names = TRUE
    /\ create_missing_workspaces = TRUE
    /\ skip_existing_workspaces = TRUE
    /\ source_creds = TRUE
    /\ source_workspace = TRUE
    /\ dest_config = TRUE
    /\ repo_include_patterns = <<>>
    /\ repo_exclude_patterns = <<>>
    /\ auto_discovery_max_repos = DefaultMaxRepos
    /\ workspace_include_patterns = <<>>
    /\ workspace_exclude_patterns = <<>>
    /\ attrs \in {InitAttrs, InitAttrs \cup LegacyAttrs}
    /\ max_backups = DefaultMaxBackups
    /\ restore_metadata = DefaultRestoreSwitches
    /\ user_mapping = NoUserMapping
    /\ metadata = [kind \in {} |-> EmptyField]
    /\ written = <<>>
    /\ repos_dir = [n \in RepoNames |-> NoDir]
    /\ cleanup_report = NoReport
    /\ next_url = None
    /\ all_data = <<>>
    /\ discovered_workspaces = <<>>
    /\ filtered_workspaces = <<>>
    /\ scanned = <<>>
    /\ workspace_repositories = <<>>
    /\ pc = SnapshotKinds[1]
    /\ auth = "source"
    /\ original_auth = None
    /\ complete_structure = <<>>
    /\ ws_idx = 0
    /\ discovered_workspace_mapping = NoMapping
    /\ repositories = <<>>
    /\ existing_dest_repos = {}
    /\ idx = 0
    /\ metadata_path = None
    /\ local_repo_path = None
    /\ mirror_repo = NoRepo
    /\ repo_stats = NoStats
    /\ success_count = 0
    /\ backup_stats = [total_repos |-> 0, successful_repos |-> 0,
                       failed_repos |-> 0, repo_details |-> <<>>,
                       errors |-> <<>>]
    /\ calls = <<>>
    /\ sleeps = 0
    /\ result = None
    /\ exit_code = -1

SnapshotNext == FetchSubResource \/ SaveMetadata

SnapshotSpec == SnapshotInit /\ [][SnapshotNext]_vars

\* ----------------------------------------------------------- archive name
\* ArchiveNameSpec is create_compressed_backup called for one repository in
\* successive runs of the program; each run reads the clock once.
\* datetime.now(), in half seconds after 14:33:10.
Instants == 0..5

TwoDigits(n) == IF n < 10 THEN "0" \o ToString(n) ELSE ToString(n)

\* A name that leaves the seconds out.
StrftimeToTheMinute(instant) == "2024-01-15_14-33"

\* current_time.strftime('%Y-%m-%d_%H-%M-%S')
strftime(instant) == "2024-01-15_14-33-" \o TwoDigits(10 + (instant \div 2))

\* The sum of the total_* counts of the snapshot.
MetadataCounts == {0, 95}

\* The size of the clone, in tenths of a megabyte.
RepoSizes == {0, 15}

size_str(repo_size) ==
    IF repo_size > 0
    THEN ToString(repo_size \div 10) \o "." \o ToString(repo_size % 10) \o "MB"
    ELSE "unknown"

ArchivedRepo == [name |-> "app", full_name |-> "team/app"]

\* SOURCE_BITBUCKET_WORKSPACE when it is set.
ConfiguredWorkspace == "acme"

\* text.split(sep)[0]
RECURSIVE SplitFirst(_, _, _)
SplitFirst(text, sep, i) ==
    IF i > Len(text) THEN text
    ELSE IF SubSeq(text, i, i) = sep THEN SubSeq(text, 1, i - 1)
    ELSE SplitFirst(text, sep, i + 1)

workspace_name(repo) ==
    IF source_workspace THEN ConfiguredWorkspace
    ELSE SplitFirst(repo.full_name, "/", 1)

backup_filename(repo, instant, metadata_count, repo_size) ==
    workspace_name(repo) \o "_" \o repo.name \o "_" \o strftime(instant)
    \o "_meta" \o ToString(metadata_count) \o "_" \o size_str(repo_size)
    \o ".tar.gz"

ArchiveRuns == {k \in 1..Len(calls) : calls[k].op = "archive"}

\* The clock of a later run is not behind the clock of an earlier one.
LastInstant == IF calls = <<>> THEN 0 ELSE calls[Len(calls)].i

ArchiveRun ==
    /\ pc = "archive"
    /\ Cardinality(ArchiveRuns) < MaxRuns
    /\ \E instant \in Instants, metadata_count \in MetadataCounts,
          repo_size \in RepoSizes :
         /\ instant >= LastInstant
         /\ calls' = Append(calls,
                Call("archive", instant,
                     backup_filename(ArchivedRepo, instant, metadata_count,
                                     repo_size),
                     "archived"))
    /\ UNCHANGED <<cfgVars, fsVars, pageVars, restoreVars, scanVars, pc, auth,
                   original_auth, discVars, iterVars, success_count,
                   backup_stats, sleeps, result, exit_code>>

ArchiveNameInit ==
    /\ migration_mode = FALSE
    /\ auto_discover_all = FALSE
    /\ multi_workspace_mode = FALSE
    /\ skip_existing_repos = TRUE
    /\ preserve_repo_names = TRUE
    /\ create_missing_workspaces = TRUE
    /\ skip_existing_workspaces = TRUE
    /\ source_creds = TRUE
    /\ source_workspace \in BOOLEAN
    /\ dest_config = TRUE
    /\ repo_include_patterns = <<>>
    /\ repo_exclude_patterns = <<>>
    /\ auto_discovery_max_repos = DefaultMaxRepos
    /\ workspace_include_patterns = <<>>
    /\ workspace_exclude_patterns = <<>>
    /\ attrs = InitAttrs
    /\ max_backups = DefaultMaxBackups
    /\ restore_metadata = DefaultRestoreSwitches
    /\ user_mapping = NoUserMapping
    /\ metadata = NoMetadata
    /\ written = <<>>
    /\ repos_dir = [n \in RepoNames |-> NoDir]
    /\ cleanup_report = NoReport
    /\ next_url = None
    /\ all_data = <<>>
    /\ discovered_workspaces = <<>>
    /\ filtered_workspaces = <<>>
    /\ scanned = <<>>
    /\ workspace_repositories = <<>>
    /\ pc = "archive"
    /\ auth = "source"
    /\ original_auth = None
    /\ complete_structure = <<>>
    /\ ws_idx = 0
    /\ discovered_workspace_mapping = NoMapping
    /\ repositories = <<>>
    /\ existing_dest_repos = {}
    /\ idx = 0
    /\ metadata_path = None
    /\ local_repo_path = None
    /\ mirror_repo = NoRepo
    /\ repo_stats = NoStats
    /\ success_count = 0
    /\ backup_stats = [total_repos |-> 0, successful_repos |-> 0,
                       failed_repos |-> 0, repo_details |-> <<>>,
                       errors |-> <<>>]
    /\ calls = <<>>
    /\ sleeps = 0
    /\ result = None
    /\ exit_code = -1

ArchiveNameNext == ArchiveRun

ArchiveNameSpec == ArchiveNameInit /\ [][ArchiveNameNext]_vars

\* -------------------------------------------------- repository filters
\* FilterSpec is the flattening step of an auto-discovery migration run,
\* from the state in which the structure has been discovered and the
\* destination workspaces mapped, with REPO_INCLUDE_PATTERNS,
\* REPO_EXCLUDE_PATTERNS and AUTO_DISCOVERY_MAX_REPOS as configured.
CandidatePool == <<"app", "app-test", "lib", "lib-test">>
PatternPool == {"app", "test", "lib"}
PatternLists == SeqsUpTo(PatternPool, MaxPatterns)

\* The listings of one workspace: the first names of the pool, some left out.
RECURSIVE Keep(_, _, _)
Keep(names, kept, k) ==
    IF k > Len(names) THEN <<>>
    ELSE (IF k \in kept THEN <<[name |-> names[k], https |-> TRUE]>> ELSE <<>>)
         \o Keep(names, kept, k + 1)

CandidateListings ==
    {Keep(CandidatePool, kept, 1) : kept \in SUBSET (1..MaxCandidates)}

FilterStructures ==
    {s \in SeqsUpTo({DiscoveryEntry(slug, l, None) :
                        slug \in WorkspaceSlugs, l \in CandidateListings},
                    Len(WorkspacePool)) :
        /\ s # <<>>
        /\ \A k \in 1..Len(s) : s[k].slug = WorkspacePool[k]}

FilterInit ==
    /\ migration_mode = TRUE
    /\ auto_discover_all = TRUE
    /\ multi_workspace_mode = FALSE
    /\ skip_existing_repos = TRUE
    /\ preserve_repo_names = TRUE
    /\ create_missing_workspaces = FALSE
    /\ skip_existing_workspaces = TRUE
    /\ source_creds = TRUE
    /\ source_workspace = TRUE
    /\ dest_config = TRUE
    /\ repo_include_patterns \in PatternLists
    /\ repo_exclude_patterns \in PatternLists
    /\ auto_discovery_max_repos \in 0..MaxCap
    /\ workspace_include_patterns = <<>>
    /\ workspace_exclude_patterns = <<>>
    /\ attrs = InitAttrs
    /\ max_backups = DefaultMaxBackups
    /\ restore_metadata = DefaultRestoreSwitches
    /\ user_mapping = NoUserMapping
    /\ metadata = NoMetadata
    /\ written = <<>>
    /\ repos_dir = [n \in RepoNames |-> NoDir]
    /\ cleanup_report = NoReport
    /\ next_url = None
    /\ all_data = <<>>
    /\ discovered_workspaces = <<>>
    /\ filtered_workspaces = <<>>
    /\ scanned = <<>>
    /\ workspace_repositories = <<>>
    /\ pc = "flatten"
    /\ auth = "source"
    /\ original_auth = None
    /\ complete_structure \in FilterStructures
    /\ ws_idx = Len(complete_structure) + 1
    /\ discovered_workspace_mapping =
           [set |-> TRUE,
            map |-> {<<complete_structure[k].slug,
                       determine_destination_workspace_name(
                           complete_structure[k].slug)>> :
                     k \in 1..Len(complete_structure)}]
    /\ repositories = <<>>
    /\ existing_dest_repos = {}
    /\ idx = 0
    /\ metadata_path = None
    /\ local_repo_path = None
    /\ mirror_repo = NoRepo
    /\ repo_stats = NoStats
    /\ success_count = 0
    /\ backup_stats = [total_repos |-> 0, successful_repos |-> 0,
                       failed_repos |-> 0, repo_details |-> <<>>,
                       errors |-> <<>>]
    /\ calls = <<>>
    /\ sleeps = 0
    /\ result = None
    /\ exit_code = -1

FilterNext == Flatten

FilterSpec == FilterInit /\ [][FilterNext]_vars

\* ------------------------------------------ auto_discover_complete_structure
\* DiscoverySpec is auto_discover_complete_structure step by step, from the
\* call at "Determine repository discovery method" of an auto-discovery run:
\* the workspaces are listed, filtered, and scanned one after the other.
WorkspacePatternPool == {"ws", "1", "2"}
WorkspacePatternLists == SeqsUpTo(WorkspacePatternPool, MaxPatterns)

\* discover_all_workspaces: the slugs listed, none on an API error.
WorkspaceListings ==
    {SubSeq(WorkspacePool, 1, n) : n \in 0..Len(WorkspacePool)}

DiscoverAllWorkspaces ==
    /\ pc = "discover_workspaces"
    /\ \E listing \in WorkspaceListings :
         /\ discovered_workspaces' = listing
         /\ pc' = IF listing = <<>> THEN "discovered" ELSE "filter_workspaces"
    /\ UNCHANGED <<cfgVars, pageVars, restoreVars, fsVars, filtered_workspaces, scanned,
                   workspace_repositories, auth, original_auth,
                   discVars, iterVars, success_count, backup_stats, calls,
                   sleeps, result, exit_code>>

RECURSIVE WorkspaceFilterLoop(_, _, _, _)
WorkspaceFilterLoop(workspaces, k, include, exclude) ==
    IF k > Len(workspaces) THEN <<>>
    ELSE IF include # <<>> /\ ~AnyMatch(include, workspaces[k])
         THEN WorkspaceFilterLoop(workspaces, k + 1, include, exclude)
    ELSE IF exclude # <<>> /\ AnyMatch(exclude, workspaces[k])
         THEN WorkspaceFilterLoop(workspaces, k + 1, include, exclude)
    ELSE <<workspaces[k]>>
         \o WorkspaceFilterLoop(workspaces, k + 1, include, exclude)

\* apply_workspace_filters: gated on the attribute workspace_filters, which
\* is assigned nowhere.
apply_workspace_filters(workspaces, include, exclude) ==
    IF ~HasAttr("workspace_filters") THEN workspaces
    ELSE WorkspaceFilterLoop(workspaces, 1, include, exclude)

ApplyWorkspaceFilters ==
    /\ pc = "filter_workspaces"
    /\ filtered_workspaces' =
           apply_workspace_filters(discovered_workspaces,
                                   workspace_include_patterns,
                                   workspace_exclude_patterns)
    /\ ws_idx' = 1
    /\ pc' = "scan"
    /\ UNCHANGED <<cfgVars, pageVars, restoreVars, fsVars, discovered_workspaces, scanned,
                   workspace_repositories, auth,
                   original_auth, complete_structure,
                   discovered_workspace_mapping, repositories,
                   existing_dest_repos, iterVars, success_count, backup_stats,
                   calls, sleeps, result, exit_code>>

\* A scan that gives up at the first workspace whose listing raises.
AbortScan(k, n) == n + 1

\* The except clause of the scanning loop: on to the next workspace.
ContinueScan(k, n) == k + 1

\* What one repository listing can answer.  "listed": every page was
\* fetched.  "http_error": a page failed with a RequestException, which
\* fetch_paginated_data swallows, returning the repositories collected from
\* the pages before it.  "error": the try block of the scan raised.
ScanAnswers ==
    {[outcome |-> o, repositories |-> l] :
        o \in {"listed", "http_error"}, l \in Listings(MaxRepos)}
    \cup {[outcome |-> "error", repositories |-> <<>>]}

\* A scan that makes no entry for a workspace without repositories.
RecordNonEmptyWorkspace(structure, slug, answer) ==
    IF answer.outcome = "error"
    THEN Append(structure, DiscoveryEntry(slug, <<>>, "exception"))
    ELSE IF answer.repositories = <<>>
         THEN structure
         ELSE Append(structure, DiscoveryEntry(slug, answer.repositories, None))

\* The entry the loop body stores for one workspace.
RecordWorkspace(structure, slug, answer) ==
    IF answer.outcome = "error"
    THEN Append(structure, DiscoveryEntry(slug, <<>>, "exception"))
    ELSE Append(structure, DiscoveryEntry(slug, answer.repositories, None))

\* discover_all_repositories_in_workspaces, one workspace per step.
ScanWorkspace ==
    /\ pc = "scan"
    /\ ws_idx <= Len(filtered_workspaces)
    /\ \E answer \in ScanAnswers :
         LET slug == filtered_workspaces[ws_idx]
         IN  /\ scanned' = Append(scanned,
                                  [slug |-> slug, outcome |-> answer.outcome,
                                   repositories |-> answer.repositories])
             /\ complete_structure' =
                    RecordWorkspace(complete_structure, slug, answer)
             /\ ws_idx' = IF answer.outcome = "error"
                          THEN ContinueScan(ws_idx, Len(filtered_workspaces))
                          ELSE ws_idx + 1
    /\ UNCHANGED <<cfgVars, pageVars, restoreVars, fsVars, discovered_workspaces, filtered_workspaces,
                   workspace_repositories, pc,
                   auth, original_auth, discovered_workspace_mapping,
                   repositories, existing_dest_repos, iterVars, success_count,
                   backup_stats, calls, sleeps, result, exit_code>>

\* The end of the scan: the structure is returned.
ReturnStructure ==
    /\ pc = "scan"
    /\ ws_idx > Len(filtered_workspaces)
    /\ pc' = "discovered"
    /\ UNCHANGED <<cfgVars, pageVars, restoreVars, fsVars, scanVars, auth, original_auth, discVars, iterVars,
                   success_count, backup_stats, calls, sleeps, result,
                   exit_code>>

DiscoveryInit ==
    /\ migration_mode \in BOOLEAN
    /\ auto_discover_all = TRUE
    /\ multi_workspace_mode = FALSE
    /\ skip_existing_repos = TRUE
    /\ preserve_repo_names = TRUE
    /\ create_missing_workspaces = TRUE
    /\ skip_existing_workspaces = TRUE
    /\ source_creds = TRUE
    /\ source_workspace = TRUE
    /\ dest_config = TRUE
    /\ repo_include_patterns = <<>>
    /\ repo_exclude_patterns = <<>>
    /\ auto_discovery_max_repos = DefaultMaxRepos
    /\ workspace_include_patterns \in WorkspacePatternLists
    /\ workspace_exclude_patterns \in WorkspacePatternLists
    /\ attrs = InitAttrs
    /\ max_backups = DefaultMaxBackups
    /\ restore_metadata = DefaultRestoreSwitches
    /\ user_mapping = NoUserMapping
    /\ metadata = NoMetadata
    /\ written = <<>>
    /\ repos_dir = [n \in RepoNames |-> NoDir]
    /\ cleanup_report = NoReport
    /\ next_url = None
    /\ all_data = <<>>
    /\ discovered_workspaces = <<>>
    /\ filtered_workspaces = <<>>
    /\ scanned = <<>>
    /\ workspace_repositories = <<>>
    /\ pc = "discover_workspaces"
    /\ auth = "source"
    /\ original_auth = None
    /\ complete_structure = <<>>
    /\ ws_idx = 0
    /\ discovered_workspace_mapping = NoMapping
    /\ repositories = <<>>
    /\ existing_dest_repos = {}
    /\ idx = 0
    /\ metadata_path = None
    /\ local_repo_path = None
    /\ mirror_repo = NoRepo
    /\ repo_stats = NoStats
    /\ success_count = 0
    /\ backup_stats = [total_repos |-> 0, successful_repos |-> 0,
                       failed_repos |-> 0, repo_details |-> <<>>,
                       errors |-> <<>>]
    /\ calls = <<>>
    /\ sleeps = 0
    /\ result = None
    /\ exit_code = -1

DiscoveryNext ==
    \/ DiscoverAllWorkspaces \/ ApplyWorkspaceFilters \/ ScanWorkspace
    \/ ReturnStructure

DiscoverySpec == DiscoveryInit /\ [][DiscoveryNext]_vars

\* ------------------------------------------------------------ properties
\* The calls of one kind, in the order they were made.
CallsOf(op) == SelectSeq(calls, LAMBDA c : c.op = op)

\* A call of one kind was made while repository i was being processed.
Called(op, i) == \E k \in 1..Len(calls) : calls[k].op = op /\ calls[k].i = i

CalledWith(op, i, outcome) ==
    \E k \in 1..Len(calls) :
        calls[k].op = op /\ calls[k].i = i /\ calls[k].outcome = outcome

\* total_repos is set on entering the loop, and only to a non-empty queue.
LoopStarted == backup_stats.total_repos > 0
Returned == pc \in {"exit", "done"}
LoopFinished == LoopStarted /\ Returned

\* Repository i has a result in repo_details.
Recorded(i) == i <= Len(backup_stats.repo_details)

Successes ==
    Cardinality({i \in 1..Len(backup_stats.repo_details) :
                    backup_stats.repo_details[i].success})

\* Steps 3 to 6 of the procedure.
LaterSteps == {"repo_create", "push", "restore", "archive"}

\* The clone step of repository i ended without a mirror and without raising.
CloneReturnedNone(i) ==
    \E k \in 1..Len(calls) :
        /\ calls[k].op = "clone" /\ calls[k].i = i
        /\ ~CloneRaises(calls[k].outcome)
        /\ clone_repository(calls[k].outcome) = None

FailureOutcomes ==
    {"mirror_failed", "timeout", "error", "rejected", "push_failed",
     "raised", "failed"}

\* An external step of repository i reported a failure.
ExternalFailure(i) ==
    \E k \in 1..Len(calls) :
        calls[k].i = i /\ calls[k].outcome \in FailureOutcomes

\* C1: every repository of the queue is started at step 1, in queue order,
\* however the repositories before it ended, and once the loop is over
\* repo_details holds exactly one result per queued repository, in queue order.
C1_EveryRepositoryStartedAndRecorded ==
    LoopFinished =>
        LET started == CallsOf("snapshot")
            details == backup_stats.repo_details
        IN  /\ Len(started) = Len(repositories)
            /\ \A k \in 1..Len(started) :
                  started[k].i = k /\ started[k].target = repositories[k].name
            /\ Len(details) = Len(repositories)
            /\ \A k \in 1..Len(details) : details[k].name = repositories[k].name

\* A finished run of two or more repositories whose first one ended in the
\* exception handler.
C1_Witness ==
    /\ LoopFinished
    /\ Len(repositories) >= 2
    /\ CalledWith("clone", 1, "AttributeError")
    /\ ~backup_stats.repo_details[1].success
    /\ Called("snapshot", 2)

C3_CleanRepositorySucceeds ==
    \A i \in 1..Len(repositories) :
        (Recorded(i) /\ repositories[i].https /\ ~ExternalFailure(i)) =>
            backup_stats.repo_details[i].success

\* C4: the process exits with 0 or 1; it exits with 0 exactly when
\* backup_all_repositories returned success, and exactly when the queue was
\* non-empty and every repository of it is recorded as succeeded.
C4_ExitCodeZeroIffAllSucceeded ==
    pc = "done" =>
        /\ exit_code \in {0, 1}
        /\ exit_code = 0 <=> result = "True"
        /\ exit_code = 0 <=>
              /\ repositories # <<>>
              /\ Len(backup_stats.repo_details) = Len(repositories)
              /\ Successes = Len(repositories)

\* A run of two repositories that exits 0.
C4_Witness ==
    /\ pc = "done"
    /\ exit_code = 0
    /\ Len(repositories) >= 2
    /\ Successes = Len(repositories)

\* C5 as stated: once the loop has started, the run is declared failed only
\* if no repository succeeded.
C5_FailedOnlyIfNoneSucceeded ==
    (LoopFinished /\ result = "False") => success_count = 0

\* C5: once the loop has started, the run is declared failed exactly when at
\* least one repository of the queue is not recorded as succeeded; a partial
\* failure is a failure of the run.
C5_FailedIffSomeRepositoryFailed ==
    LoopFinished =>
        (result = "False" <=>
            \E i \in 1..Len(repositories) :
                ~(Recorded(i) /\ backup_stats.repo_details[i].success))

\* A run declared failed although one of its repositories succeeded.
C5_Witness ==
    /\ LoopFinished
    /\ result = "False"
    /\ success_count >= 1
    /\ success_count < Len(repositories)

\* The calls made on behalf of one repository.
RepositoryOps ==
    {"snapshot", "clone", "repo_create", "push", "restore", "archive", "retain"}

NoRepositoryTouched ==
    /\ \A k \in 1..Len(calls) : calls[k].op \notin RepositoryOps
    /\ backup_stats.repo_details = <<>>

\* The configuration validate_migration_config rejects without probing.
ConfigurationRejected ==
    \/ ~source_creds
    \/ ~source_workspace
    \/ migration_mode /\ ~dest_config

\* C6: when validation fails or discovery yields no repository, the run
\* returns failure before the loop starts: no repository is snapshotted,
\* cloned, created, pushed, restored or archived, and repo_details stays empty.
C6_NoRepositoryTouchedWithoutQueue ==
    /\ ConfigurationRejected => (NoRepositoryTouched /\ ~LoopStarted)
    /\ (Returned /\ repositories = <<>>) =>
          /\ NoRepositoryTouched
          /\ result # "True"
          /\ pc = "done" => exit_code = 1

\* A migration run that passed validation, created a destination workspace
\* and then found no repository to process.
C6_Witness ==
    /\ pc = "done"
    /\ migration_mode
    /\ ~ConfigurationRejected
    /\ repositories = <<>>
    /\ result = "False"
    /\ CallsOf("ws_get") # <<>>

\* Repository idx has just been through step 3.
AfterCreateStep == pc = "push"

ExistsAtDestination(i) == TargetName(repositories[i].name) \in existing_dest_repos

\* C7: in migration mode the create-or-skip decision for a repository is a
\* skip exactly when its destination name is in the pre-fetched set and
\* SKIP_EXISTING_REPOS is true, and a create request otherwise.
C7_SkipIffExistingAndEnabled ==
    (migration_mode /\ AfterCreateStep) =>
        (~Called("repo_create", idx) <=>
            (ExistsAtDestination(idx) /\ skip_existing_repos))

\* C8: when the destination name exists and skip-existing is enabled, the
\* record handed to the push and restore steps is the pre-existing destination
\* repository.
C8_ExistingRecordCarriedForward ==
    (/\ migration_mode
     /\ skip_existing_repos
     /\ pc \in {"push", "restore", "restoring"}
     /\ ExistsAtDestination(idx)) =>
        mirror_repo = [name |-> TargetName(repositories[idx].name),
                       origin |-> "existing"]

\* Calls that change the destination.
MutatingOps == {"ws_create", "repo_create", "push", "restore"}

\* C9: in migration mode the destination repository set is fetched at most
\* once, and before every mutating destination call (workspace create,
\* repository create, push, restore).
C9_DestinationFetchedOnceBeforeMutation ==
    migration_mode =>
        /\ Len(CallsOf("list_dest")) <= 1
        /\ \A k \in 1..Len(calls) :
              calls[k].op \in MutatingOps =>
                  \E j \in 1..(k - 1) : calls[j].op = "list_dest"

\* Repository i went through step 3.
ReachedCreateStep(i) ==
    /\ i <= Len(repositories)
    /\ \E k \in 1..Len(calls) :
          calls[k].op = "clone" /\ calls[k].i = i /\ ~CloneRaises(calls[k].outcome)
    /\ i < idx \/ pc \in {"push", "restore", "restoring", "archive", "cleanup",
                          "sleep"}

\* C10: with skip-existing disabled and the destination name already present,
\* the create request is still sent; when it is rejected no push or restore is
\* made for that repository, the run is not aborted, and the loop goes on to
\* the repositories after it.
C10_ConflictingCreateIsNotFatal ==
    \A i \in 1..Len(repositories) :
        (/\ migration_mode
         /\ ~skip_existing_repos
         /\ ExistsAtDestination(i)
         /\ ReachedCreateStep(i)) =>
            /\ Called("repo_create", i)
            /\ CalledWith("repo_create", i, "rejected") =>
                  /\ ~Called("push", i)
                  /\ ~Called("restore", i)
                  /\ Returned =>
                        /\ Len(backup_stats.repo_details) = Len(repositories)
                        /\ \A j \in (i + 1)..Len(repositories) :
                              Called("snapshot", j)

\* A finished migration run in which the create request for an already present
\* name was rejected and the repository after it was still processed.
C10_Witness ==
    /\ LoopFinished
    /\ migration_mode
    /\ ~skip_existing_repos
    /\ Len(repositories) >= 2
    /\ ExistsAtDestination(1)
    /\ CalledWith("repo_create", 1, "rejected")
    /\ Called("snapshot", 2)

\* How many calls of one kind were made for repository i.
CallCount(op, i) ==
    Cardinality({k \in 1..Len(calls) : calls[k].op = op /\ calls[k].i = i})

\* Every repository after i was started.
LaterRepositoriesStarted(i) ==
    \A j \in (i + 1)..Len(repositories) : Called("snapshot", j)

GitCommands == {"git_push_mirror", "git_push_all", "git_push_tags"}

\* A git clone or push made for repository i ran into its timeout.
TimedOut(i) ==
    \/ CalledWith("clone", i, "timeout")
    \/ \E op \in GitCommands : CalledWith(op, i, "timeout")

MirrorOnly(i) == CalledWith("clone", i, "no_working_copy")

Flattened == pc = "check_repos"

Names(repos) == [j \in 1..Len(repos) |-> repos[j].name]

\* The names a workspace listed, and the names of it that are in the queue.
Listed(k) == Names(complete_structure[k].repositories)
Selected(k) ==
    Names(SelectSeq(repositories,
                    LAMBDA r : r.workspace = complete_structure[k].slug))

\* A name passes the patterns: it matches an include pattern when there are
\* any, and it matches no exclude pattern.
Passes(name) ==
    /\ repo_include_patterns = <<>> \/ AnyMatch(repo_include_patterns, name)
    /\ ~AnyMatch(repo_exclude_patterns, name)

PatternFiltered(k) == SelectSeq(Listed(k), Passes)

IsPrefix(s, t) == Len(s) <= Len(t) /\ s = SubSeq(t, 1, Len(s))

\* C14: a repository whose name contains an exclude pattern is omitted,
\* whether or not an include pattern matches it; app, app-test, lib with
\* include "app" and exclude "test" yield exactly app.
C14_ExclusionDominates ==
    Flattened =>
        \A k \in 1..Len(complete_structure) :
            /\ \A j \in 1..Len(Listed(k)) :
                  AnyMatch(repo_exclude_patterns, Listed(k)[j]) =>
                      \A m \in 1..Len(Selected(k)) : Selected(k)[m] # Listed(k)[j]
            /\ (/\ Listed(k) = <<"app", "app-test", "lib">>
                /\ repo_include_patterns = <<"app">>
                /\ repo_exclude_patterns = <<"test">>
                /\ auto_discovery_max_repos >= 1) =>
                   Selected(k) = <<"app">>

\* The queue built from app, app-test, lib with include "app", exclude "test".
C14_Witness ==
    /\ Flattened
    /\ Listed(1) = <<"app", "app-test", "lib">>
    /\ repo_include_patterns = <<"app">>
    /\ repo_exclude_patterns = <<"test">>
    /\ Selected(1) = <<"app">>

\* C15: with no include and no exclude pattern every repository of a
\* workspace is selected, in the original order.
C15_DefaultAllow ==
    (Flattened /\ repo_include_patterns = <<>> /\ repo_exclude_patterns = <<>>) =>
        \A k \in 1..Len(complete_structure) : Selected(k) = Listed(k)

\* A workspace of three repositories selected whole with no pattern set and
\* a cap below three.
C15_Witness ==
    /\ Flattened
    /\ repo_include_patterns = <<>>
    /\ repo_exclude_patterns = <<>>
    /\ Len(Listed(1)) = 3
    /\ auto_discovery_max_repos < 3
    /\ Selected(1) = Listed(1)

\* C16: with a cap greater than 0 no workspace contributes more than the cap,
\* whatever the patterns (none included), and what it contributes is a prefix
\* of its pattern-filtered list.
C16_CapBoundsSelection ==
    (Flattened /\ auto_discovery_max_repos > 0) =>
        \A k \in 1..Len(complete_structure) :
            /\ Len(Selected(k)) <= auto_discovery_max_repos
            /\ IsPrefix(Selected(k), PatternFiltered(k))

\* C17: a cap of 0 means unlimited: the selection of a workspace is its whole
\* pattern-filtered list, whatever the patterns.
C17_ZeroCapIsUnlimited ==
    (Flattened /\ auto_discovery_max_repos = 0) =>
        \A k \in 1..Len(complete_structure) : Selected(k) = PatternFiltered(k)

\* C18: the cap is applied per workspace: what a workspace contributes to the
\* queue is what it contributes when it is the only workspace discovered.
C18_CapPerWorkspace ==
    Flattened =>
        \A k \in 1..Len(complete_structure) :
            Selected(k) =
                Names(flatten_discovered_structure_to_repositories(
                          <<complete_structure[k]>>, 1))

\* The first workspace was cut at the cap and the second still contributes
\* as many repositories as the cap allows.
C18_Witness ==
    /\ Flattened
    /\ Len(complete_structure) = 2
    /\ auto_discovery_max_repos > 0
    /\ Len(PatternFiltered(1)) > auto_discovery_max_repos
    /\ Len(Selected(1)) = auto_discovery_max_repos
    /\ Len(Selected(2)) = auto_discovery_max_repos

\* auto_discover_complete_structure has returned.
Discovered == pc = "discovered"

\* The workspace patterns reject a slug.
WorkspaceRejected(slug) ==
    \/ AnyMatch(workspace_exclude_patterns, slug)
    \/ workspace_include_patterns # <<>>
       /\ ~AnyMatch(workspace_include_patterns, slug)

\* C19: a discovered workspace whose slug contains an exclude pattern, or
\* matches no include pattern when there are any, is not scanned and has no
\* entry in the discovered structure.
C19_WorkspacePatternsApplied ==
    \A j \in 1..Len(discovered_workspaces) :
        WorkspaceRejected(discovered_workspaces[j]) =>
            /\ \A k \in 1..Len(scanned) :
                  scanned[k].slug # discovered_workspaces[j]
            /\ \A k \in 1..Len(complete_structure) :
                  complete_structure[k].slug # discovered_workspaces[j]

\* C20: an error while listing one workspace does not keep the workspaces
\* after it from being listed, and the structure returned holds, for every
\* workspace whose listing succeeded, the whole list it answered.
C20_ScanSurvivesErrors ==
    Discovered =>
        /\ Len(scanned) = Len(filtered_workspaces)
        /\ Len(complete_structure) = Len(filtered_workspaces)
        /\ \A k \in 1..Len(scanned) :
              /\ scanned[k].slug = filtered_workspaces[k]
              /\ complete_structure[k].slug = filtered_workspaces[k]
              /\ scanned[k].outcome = "listed" =>
                    complete_structure[k].repositories = scanned[k].repositories

\* The listing of the first workspace raised and the second workspace is in
\* the structure with the repositories it listed.
C20_Witness ==
    /\ Discovered
    /\ Len(scanned) = 2
    /\ scanned[1].outcome = "error"
    /\ scanned[2].outcome = "listed"
    /\ scanned[2].repositories # <<>>
    /\ complete_structure[2].repositories = scanned[2].repositories

\* The listing of workspace k failed: on an HTTP or network error of one of
\* its pages, or with any other exception.
ListingFailed(k) == scanned[k].outcome \in {"http_error", "error"}

\* C21: a failed repository listing of a workspace is recorded on the entry
\* of that workspace in the discovery map (the entry carries an error), so a
\* failed workspace can be told from an empty one.
C21_ListingFailureRecorded ==
    \A k \in 1..Len(scanned) :
        ListingFailed(k) => complete_structure[k].error # None

\* C22: every workspace scanned so far has its entry in the discovery map,
\* with repo_count the length of its list, and a workspace that listed no
\* repository has the empty list and repo_count 0.
C22_EveryScannedWorkspaceHasEntry ==
    pc \in {"scan", "discovered"} =>
        /\ Len(complete_structure) = Len(scanned)
        /\ \A k \in 1..Len(scanned) :
              /\ complete_structure[k].slug = scanned[k].slug
              /\ complete_structure[k].repo_count =
                    Len(complete_structure[k].repositories)
              /\ scanned[k].repositories = <<>> =>
                    /\ complete_structure[k].repositories = <<>>
                    /\ complete_structure[k].repo_count = 0

\* Two workspaces were scanned; the first listed no repository without any
\* error, the second listed one.
C22_Witness ==
    /\ Discovered
    /\ Len(scanned) = 2
    /\ scanned[1].outcome = "listed"
    /\ scanned[1].repositories = <<>>
    /\ complete_structure[1].repo_count = 0
    /\ scanned[2].outcome = "listed"
    /\ complete_structure[2].repo_count = 1

\* The queue holds of workspace slug, in order, the names given, each once.
QueueHolds(slug, names) ==
    Names(SelectSeq(repositories, LAMBDA r : r.workspace = slug)) = names

\* The queue follows the order of the workspaces of the map.
InWorkspaceOrder(map) ==
    \A i, j \in 1..Len(repositories) :
        i < j =>
            \E a, b \in 1..Len(map) :
                /\ a <= b
                /\ map[a].slug = repositories[i].workspace
                /\ map[b].slug = repositories[j].workspace

\* The auto-discovery map is flattened in order: of each workspace the queue
\* holds the selected names once, in the order they were discovered.
AutoDiscoveryFlattenedInOrder ==
    (Flattened /\ auto_discover_all) =>
        /\ Len(repositories) <= Total(complete_structure, 1)
        /\ InWorkspaceOrder(complete_structure)
        /\ \A k \in 1..Len(complete_structure) :
              QueueHolds(complete_structure[k].slug,
                         SelectSeq(Listed(k),
                                   LAMBDA n : \E j \in 1..Len(Selected(k)) :
                                                 Selected(k)[j] = n))

\* The multi-workspace map is flattened in order: the queue holds of each
\* workspace every repository it listed, once, in the order listed.
MultiWorkspaceFlattenedInOrder ==
    (Flattened /\ multi_workspace_mode /\ ~auto_discover_all) =>
        /\ InWorkspaceOrder(workspace_repositories)
        /\ \A k \in 1..Len(workspace_repositories) :
              QueueHolds(workspace_repositories[k].slug,
                         Names(workspace_repositories[k].repos))

\* C23: flattening a discovery map yields every selected repository record
\* exactly once, by workspace order and then discovery order, for the
\* auto-discovery map and for the multi-workspace map alike.
C23_FlattenKeepsEveryRecordInOrder ==
    AutoDiscoveryFlattenedInOrder /\ MultiWorkspaceFlattenedInOrder

\* cleanup_old_backups has just returned for the repository at idx.
Retained == pc = "sleep"
RetainedDir == repos_dir[repositories[idx].name]

\* The entries of a listing that were not removed.
KeptOf(times, removed) == {j \in 1..Len(times) : j \notin removed}

\* At least keep of the entries kept are as new as every entry removed.
NewestKept(times, removed, keep) ==
    \A i \in removed :
        Cardinality({j \in KeptOf(times, removed) : times[j] >= times[i]})
            >= keep

\* C24: cleanup_old_backups on a directory of count archives deletes at most
\* max(0, count - max_backups) of them and never one of the max_backups
\* newest; when no removal fails exactly the max_backups newest remain, and
\* with count <= max_backups nothing is deleted.
C24_RetentionKeepsNewest ==
    Retained =>
        LET found == cleanup_report.files
            removed == cleanup_report.removed
            count == Len(found)
        IN  /\ RetainedDir.files = Remaining(found, removed)
            /\ Cardinality(removed) <=
                   (IF count > max_backups THEN count - max_backups ELSE 0)
            /\ NewestKept(found, removed, max_backups)
            /\ (count > max_backups /\ cleanup_report.errors = {}) =>
                   Len(RetainedDir.files) = max_backups
            /\ count <= max_backups => removed = {}

\* Three archives of different ages and a retention of one: the two oldest
\* were removed and the newest remains.
C24_Witness ==
    /\ Retained
    /\ idx = 1
    /\ max_backups = 1
    /\ cleanup_report.files = <<2, 3, 1>>
    /\ cleanup_report.removed = {1, 3}
    /\ RetainedDir.files = <<3>>

\* C25: after a cleanup in which no removal failed, at most max_backups
\* directories remain in the backup directory, however many archives it
\* holds.
C25_DirectoriesPruned ==
    (Retained /\ cleanup_report.errors = {} /\ cleanup_report.dir_errors = {})
        => Len(RetainedDir.dirs) <= max_backups

\* The cleanup of repository i met a removal that failed.
RemovalFailed(i) == CalledWith("retain", i, "removal_errors")

\* C26: a removal that fails during the cleanup is not fatal: every other
\* candidate is still removed, the repository is recorded as succeeded, and
\* the repositories after it are processed.
C26_RemovalFailureNotFatal ==
    /\ Retained =>
          /\ cleanup_report.removed \cup cleanup_report.errors =
                 FileCandidates([exists |-> TRUE, files |-> cleanup_report.files,
                                 dirs |-> <<>>], max_backups)
          /\ cleanup_report.removed \cap cleanup_report.errors = {}
          /\ Len(cleanup_report.files) > max_backups =>
                 cleanup_report.removed_dirs \cup cleanup_report.dir_errors =
                    DirCandidates([exists |-> TRUE, files |-> cleanup_report.files,
                                   dirs |-> cleanup_report.dirs], max_backups)
    /\ \A i \in 1..Len(repositories) :
          RemovalFailed(i) =>
              /\ Recorded(i) /\ backup_stats.repo_details[i].success
              /\ LoopFinished => LaterRepositoriesStarted(i)

\* The removal of the second newest archive of the first repository failed,
\* the oldest one was removed after it, the repository is recorded as
\* succeeded and the second repository has been started.
C26_Witness ==
    /\ Called("snapshot", 2)
    /\ ~Called("retain", 2)
    /\ RemovalFailed(1)
    /\ max_backups = 1
    /\ cleanup_report.files = <<3, 2, 1>>
    /\ cleanup_report.errors = {2}
    /\ cleanup_report.removed = {3}
    /\ backup_stats.repo_details[1].success

\* C27: the paginated fetch terminates whatever the server answers; a page
\* whose 'next' link is the URL just requested ends it like any other.
C27_PaginationTerminates == <>(pc = "fetched")

\* C28: the pause follows every iteration that is not the last, failed ones
\* included: when repository j is started, each of the j - 1 iterations
\* before it was followed by its pause.
C28_PauseBetweenIterations ==
    \A j \in 2..Len(repositories) : Called("snapshot", j) => sleeps >= j - 1

\* C29: self.auth is the source credentials at the start of every iteration,
\* at every step outside the restoration and after the loop, also after a
\* restoration that raised; it is the destination credentials only while
\* the restoration runs, so the snapshot of step 1 is read as the source.
C29_SourceAuthOutsideRestore ==
    /\ pc # "restoring" => auth = "source"
    /\ pc = "restoring" => auth = "dest" /\ original_auth = "source"

\* The restoration of the first repository raised, and the second iteration
\* starts with the source credentials.
C29_Witness ==
    /\ CalledWith("restore", 1, "raised")
    /\ pc = "loop"
    /\ idx = 2
    /\ idx <= Len(repositories)
    /\ auth = "source"

StartsWith(line, prefix) ==
    Len(line) >= Len(prefix) /\ SubSeq(line, 1, Len(prefix)) = prefix

\* The content starts with the header that names the original author, the
\* original date and the date of the migration.
BeginsWithProvenance(content) ==
    /\ Len(content) >= 6
    /\ StartsWith(content[4], "- **Original Author:** ")
    /\ StartsWith(content[5], "- **Original Date:** ")
    /\ StartsWith(content[6], "- **Migration Date:** ")

\* The kinds whose content goes through format_migrated_content.
FormattedKinds == {"issue", "comment", "wiki"}

\* Issues, issue comments and wiki pages are written with the header.
FormattedItemsCarryProvenance ==
    \A k \in 1..Len(written) :
        written[k].kind \in FormattedKinds =>
            BeginsWithProvenance(written[k].content)

SnapshotSaved == pc = "saved"

\* The fetch of a sub-resource failed: with an exception or with an HTTP
\* error on one of its requests.
FetchFailed(kind) ==
    \E k \in 1..Len(calls) :
        calls[k].op = "fetch" /\ calls[k].target = kind
        /\ calls[k].outcome # "fetched"

\* Whatever failed, every sub-resource was fetched once, in order, and the
\* file was written and its path returned.
SnapshotNeverAborted ==
    SnapshotSaved =>
        /\ Names([k \in 1..Len(SnapshotKinds) |-> [name |-> calls[k].target]])
              = SnapshotKinds
        /\ \A k \in 1..Len(SnapshotKinds) : calls[k].op = "fetch"
        /\ DOMAIN metadata = Range(SnapshotKinds)
        /\ metadata_path = "metadata.json"

RECURSIVE ContainsFrom(_, _, _)
ContainsFrom(text, string, i) ==
    IF i + Len(string) - 1 > Len(text) THEN FALSE
    ELSE IF SubSeq(text, i, i + Len(string) - 1) = string THEN TRUE
    ELSE ContainsFrom(text, string, i + 1)

\* A request body that holds the key of a deploy key of the snapshot.
CarriesKeyMaterial(item) ==
    \E k \in 1..Len(metadata.deploy_keys) :
        \E l \in 1..Len(item.content) :
            ContainsFrom(item.content[l], metadata.deploy_keys[k].key, 1)

DeployKeyItems ==
    {i \in 1..Len(written) :
        written[i].kind \in {"deploy_key", "deploy_keys_documentation"}}

\* The documentation names the label, the dates, a fingerprint field and
\* the manual action.
DocumentsKeys(content) ==
    /\ \E l \in 1..Len(content) : StartsWith(content[l], "- **Label:** ")
    /\ \E l \in 1..Len(content) : StartsWith(content[l], "- **Created:** ")
    /\ \E l \in 1..Len(content) :
          StartsWith(content[l], "**Public Key Fingerprint:** ")
    /\ \E l \in 1..Len(content) :
          StartsWith(content[l], "**Action Required:** Manually add")

\* C32: no request sent to the destination carries deploy-key material;
\* deploy-key restoration sends one documentation issue (labels, dates, a
\* fingerprint field, a manual-action note) and never a request that
\* creates a deploy key.
C32_NoDeployKeyMaterialSent ==
    /\ \A i \in 1..Len(written) : ~CarriesKeyMaterial(written[i])
    /\ \A i \in DeployKeyItems :
          /\ written[i].kind = "deploy_keys_documentation"
          /\ DocumentsKeys(written[i].content)
    /\ Cardinality(DeployKeyItems) <= 1
    /\ pc = "restored" /\ restore_metadata.deploy_keys
         /\ metadata.deploy_keys # <<>>
       => Cardinality(DeployKeyItems) = 1

C32_Witness ==
    /\ pc = "restored"
    /\ Len(metadata.deploy_keys) = MaxRestored
    /\ \E i \in 1..Len(written) :
          /\ written[i].kind = "deploy_keys_documentation"
          /\ \E l \in 1..Len(written[i].content) :
                written[i].content[l] = "- **Label:** ci"

\* Two runs whose clocks read different seconds.
DifferentSeconds(i, j) == calls[i].i \div 2 # calls[j].i \div 2

\* C33: two archives of the same repository made by runs whose timestamps
\* differ (to the second) have different file names, so the later run does
\* not overwrite the archive of the earlier one.
C33_LaterRunKeepsEarlierArchive ==
    \A i \in ArchiveRuns : \A j \in ArchiveRuns :
        (i < j /\ DifferentSeconds(i, j)) => calls[i].target # calls[j].target

\* Two runs one second apart with the same counts and the same size.
C33_Witness ==
    /\ Len(calls) = 2
    /\ ~source_workspace
    /\ calls[1].target = "team_app_2024-01-15_14-33-10_meta95_1.5MB.tar.gz"
    /\ calls[2].target = "team_app_2024-01-15_14-33-11_meta95_1.5MB.tar.gz"

\* A call that changes the destination: a repository-create request, a
\* push, or a restoration.
MutatesDestination(call) ==
    \/ call.op \in {"repo_create", "push", "restore"}
    \/ StartsWith(call.op, "git_")

\* C34: in backup-only mode (MIGRATION_MODE false) the run issues no
\* repository-create request, no push and no restore for any repository.
C34_BackupOnlyLeavesDestinationAlone ==
    ~migration_mode => \A k \in 1..Len(calls) : ~MutatesDestination(calls[k])

\* In backup-only mode the restoration is the one step that is held back.
BackupOnlyNeverRestores ==
    ~migration_mode => \A k \in 1..Len(calls) : calls[k].op # "restore"

\* A request sent to the destination for the repository at position i of
\* the queue.
DestinationRequests ==
    {k \in 1..Len(calls) :
        calls[k].i \in 1..Len(repositories) /\ MutatesDestination(calls[k])}

\* C35: in migration mode with several source workspaces, the create, push
\* and restore calls for a repository target the destination workspace
\* determined for that repository's own source workspace.
C35_RequestsTargetOwnDestination ==
    (migration_mode /\ auto_discover_all) =>
        \A k \in DestinationRequests :
            RequestWorkspace(repositories[calls[k].i])
                = repositories[calls[k].i].dest_workspace

\* The requests for the repositories of the first workspace do reach the
\* workspace of their record.
FirstWorkspaceReachesOwnDestination ==
    (migration_mode /\ auto_discover_all /\ dest_config) =>
        \A k \in DestinationRequests :
            repositories[calls[k].i].workspace = WorkspacePool[1] =>
                RequestWorkspace(repositories[calls[k].i])
                    = repositories[calls[k].i].dest_workspace

\* Two records of the queue that differ in workspace or in name, both
\* past their snapshot.
DistinctRecords(i, j) ==
    /\ i # j
    /\ (repositories[i].workspace # repositories[j].workspace
         \/ repositories[i].name # repositories[j].name)
    /\ Called("snapshot", i) /\ Called("snapshot", j)

DistinctPaths(i, j) ==
    /\ timestamped_dir(repositories[i]) # timestamped_dir(repositories[j])
    /\ metadata_file(repositories[i]) # metadata_file(repositories[j])
    /\ repo_backup_dir(repositories[i]) # repo_backup_dir(repositories[j])

\* C36: within one run two distinct repository records (differing in
\* workspace slug or in name) never get the same timestamped clone
\* directory, the same metadata snapshot path or the same archive directory.
C36_DistinctRecordsDistinctPaths ==
    \A i \in 1..Len(repositories) : \A j \in 1..Len(repositories) :
        DistinctRecords(i, j) => DistinctPaths(i, j)

\* Records with different names do get different paths.
DistinctNamesDistinctPaths ==
    \A i \in 1..Len(repositories) : \A j \in 1..Len(repositories) :
        (DistinctRecords(i, j) /\ repositories[i].name # repositories[j].name)
            => DistinctPaths(i, j)

\* The error strings of the run that name a repository.
ErrorsNaming(name) ==
    {k \in 1..Len(backup_stats.errors) :
        backup_stats.errors[k] = "Error processing " \o name}

\* The records of the repositories of one name that ended in the exception
\* handler.
FailedRecordsNamed(name) ==
    {i \in 1..Len(backup_stats.repo_details) :
        /\ backup_stats.repo_details[i].name = name
        /\ ~backup_stats.repo_details[i].success}

\* C37: when backup_all_repositories returns after the loop,
\* successful_repos + failed_repos = total_repos = len(repo_details),
\* successful_repos counts the results with success true, and every
\* repository that failed by exception has one error string naming it in
\* the errors of the run.
C37_StatisticsAddUp ==
    LoopFinished =>
        /\ backup_stats.successful_repos + backup_stats.failed_repos
              = backup_stats.total_repos
        /\ backup_stats.total_repos = Len(backup_stats.repo_details)
        /\ backup_stats.successful_repos = Successes
        /\ \A i \in 1..Len(backup_stats.repo_details) :
              LET name == backup_stats.repo_details[i].name
              IN  Cardinality(ErrorsNaming(name))
                      = Cardinality(FailedRecordsNamed(name))

\* A finished run of two repositories, the first of which raised and the
\* second of which succeeded.
C37_Witness ==
    /\ LoopFinished
    /\ Len(backup_stats.repo_details) = 2
    /\ CalledWith("clone", 1, "AttributeError")
    /\ ~backup_stats.repo_details[1].success
    /\ backup_stats.repo_details[2].success
    /\ backup_stats.successful_repos = 1
    /\ backup_stats.failed_repos = 1
    /\ Len(backup_stats.errors) = 1

\* The requests of each sub-restore, by the kind of item they write.
SubRestores ==
    <<[switch |-> "issues", field |-> "issues", kinds |-> {"issue", "comment"}],
      [switch |-> "prs", field |-> "pull_requests",
       kinds |-> {"pr_documentation_wiki", "pr_documentation_issue"}],
      [switch |-> "wiki", field |-> "wiki", kinds |-> {"wiki"}],
      [switch |-> "permissions", field |-> "permissions",
       kinds |-> {"permission"}],
      [switch |-> "restrictions", field |-> "branch_restrictions",
       kinds |-> {"branch_restriction"}],
      [switch |-> "webhooks", field |-> "webhooks", kinds |-> {"webhook"}],
      [switch |-> "deploy_keys", field |-> "deploy_keys",
       kinds |-> {"deploy_keys_documentation"}]>>

Wrote(kinds) == \E i \in 1..Len(written) : written[i].kind \in kinds

\* The restoration has been entered.
RestoreEntered ==
    \/ pc \in {"restoring", "restored"}
    \/ StartsWith(pc, "restore_")
    \/ Called("restore", idx)
    \/ written # <<>>

\* C38: the restore step runs only in migration mode and only with a
\* destination repository record; each sub-restore sends requests only if
\* its RESTORE_* switch is on and the snapshot holds data for it; the
\* archive step runs only when the clone returned a local directory.
C38_StepsRunOnlyWhenGuarded ==
    /\ RestoreEntered => (migration_mode /\ mirror_repo # NoRepo)
    /\ \A k \in 1..Len(SubRestores) :
          Wrote(SubRestores[k].kinds) =>
              /\ restore_metadata[SubRestores[k].switch]
              /\ metadata[SubRestores[k].field] # <<>>
    /\ Called("archive", idx) => local_repo_path # None

\* A restoration of a full snapshot with RESTORE_WEBHOOKS off: issues were
\* written, no webhook was, and the archive was made.
C38_Witness ==
    /\ pc = "cleanup"
    /\ metadata = FullSnapshot
    /\ restore_metadata.issues /\ ~restore_metadata.webhooks
    /\ Wrote({"issue"}) /\ ~Wrote({"webhook"})
    /\ Called("restore", idx)
    /\ Called("archive", idx)

WikiDocumentations ==
    {i \in 1..Len(written) : written[i].kind = "pr_documentation_wiki"}

FallbackIssues ==
    {i \in 1..Len(written) : written[i].kind = "pr_documentation_issue"}

\* What a request that creates a pull request would write.
PullRequestKinds == {"pull_request", "pullrequest"}

\* C39: restore_pull_requests never recreates pull requests; it first
\* attempts one documentation wiki page and creates the fallback issue
\* exactly when that wiki write failed; at most one wiki write and one
\* fallback issue are made per repository.
C39_PullRequestsDocumentedOnce ==
    /\ \A i \in 1..Len(written) : written[i].kind \notin PullRequestKinds
    /\ Cardinality(WikiDocumentations) <= 1
    /\ Cardinality(FallbackIssues) <= 1
    /\ \A j \in FallbackIssues : \E i \in WikiDocumentations : i < j
    /\ FallbackIssues # {}
          <=> \E i \in WikiDocumentations : ~written[i].answered
    /\ (pc # "restore_issues" /\ pc # "restore_prs" /\ restore_metadata.prs
            /\ metadata.pull_requests # <<>>)
          => Cardinality(WikiDocumentations) = 1

\* The wiki write failed and the documentation went to an issue.
C39_Witness ==
    /\ pc = "restored"
    /\ Len(metadata.pull_requests) = MaxRestored
    /\ \E i \in WikiDocumentations : \E j \in FallbackIssues :
          /\ j = i + 1
          /\ ~written[i].answered
          /\ written[j].content = written[i].content

\* USER_MAPPING has an entry for the user's name.
HasMapping(user_info) ==
    /\ user_info # NullAuthor
    /\ \E p \in user_mapping : p[1] = user_info.username

\* The destination user USER_MAPPING names for a mapped user, no user for
\* an unmapped or absent one.
ExpectedUser(user_info) ==
    IF HasMapping(user_info)
    THEN [username |->
            (CHOOSE p \in user_mapping : p[1] = user_info.username)[2]]
    ELSE NoUser

IssueItems == SelectSeq(written, LAMBDA w : w.kind = "issue")

PermissionItems == SelectSeq(written, LAMBDA w : w.kind = "permission")

\* The user permissions of the snapshot whose user has a mapping.
MappedPermissions ==
    SelectSeq(metadata.permissions,
              LAMBDA e : e.type = "user_permission" /\ HasMapping(e.user))

\* C40: map_user_account returns a destination user exactly when the
\* source username has an entry in USER_MAPPING, and then the mapped name;
\* for an unmapped or absent user it returns no user, the restored issue
\* carries no assignee, and no permission request is sent for that user.
C40_OnlyMappedUsersCarriedOver ==
    /\ \A user_info \in Authors :
          /\ map_user_account(user_info) # NoUser <=> HasMapping(user_info)
          /\ map_user_account(user_info) = ExpectedUser(user_info)
    /\ Len(IssueItems) <= Len(metadata.issues)
    /\ \A k \in 1..Len(IssueItems) :
          IssueItems[k].assignee = ExpectedUser(metadata.issues[k].assignee)
    /\ PermissionItems # <<>> =>
          /\ Len(PermissionItems) = Len(MappedPermissions)
          /\ \A k \in 1..Len(PermissionItems) :
                PermissionItems[k].user
                    = ExpectedUser(MappedPermissions[k].user).username
    /\ (pc = "cleanup" /\ Called("restore", idx) /\ restore_metadata.permissions)
          => Len(PermissionItems) = Len(MappedPermissions)

\* With USER_MAPPING {"ann": "anna"}: the issue assigned to ann is restored
\* with assignee anna, the unassigned one without, and ann's permission is
\* given to anna.
C40_Witness ==
    /\ pc = "cleanup"
    /\ user_mapping = {<<"ann", "anna">>}
    /\ metadata = FullSnapshot
    /\ Len(IssueItems) = 2
    /\ IssueItems[1].assignee = [username |-> "anna"]
    /\ IssueItems[2].assignee = NoUser
    /\ Len(PermissionItems) = 1
    /\ PermissionItems[1].user = "anna"

\* Without USER_MAPPING: the issue assigned to ann is restored without
\* assignee and no permission request is sent.
UnmappedUserDropped ==
    (pc = "cleanup" /\ user_mapping = NoUserMapping /\ metadata = FullSnapshot
        /\ Called("restore", idx) /\ restore_metadata.issues
        /\ restore_metadata.permissions)
      => /\ Len(IssueItems) = 2
         /\ IssueItems[1].assignee = NoUser
         /\ PermissionItems = <<>>
====
